---- MODULE Spec2Model ----
(***************************************************************************)
(* Feature runtime and command dispatch core of td-bot-platform.           *)
(*                                                                         *)
(* The state is the CommandRegistry maps, the LicenseManager map, the      *)
(* FeatureLoader instances map, the FeatureRegistry catalog, the           *)
(* handleEvent / cleanupGuild call that is awaiting its promises, the      *)
(* default configuration of every feature, the calls of executeCommand,    *)
(* enableFeature and disableFeature that await a handler or a hook, the    *)
(* progress of the signal handler, the wall clock, and `last`, the most    *)
(* recent API call with its inputs and its outcome (return value, reply    *)
(* sent through the transport, hooks invoked).  Every API call is one      *)
(* action that runs the whole method; awaited collaborators (command       *)
(* handler, transport reply, feature hooks) are inputs of the call that    *)
(* either complete or throw.                                               *)
(***************************************************************************)
EXTENDS Integers, Sequences, FiniteSets, TLC

VARIABLES
    commands,    \* CommandRegistry.commands : name -> handler object
    aliases,     \* CommandRegistry.aliases  : alias -> name
    cooldowns,   \* CommandRegistry.cooldowns: name -> (user -> expiry ms)
    enabled,     \* metadata.enabled of every handler object
    licenses,    \* LicenseManager.licenses  : guildId -> License
    instances,   \* FeatureLoader.instances : guildId -> (featureKey -> instance)
    botPermissions, \* guild.members.me.permissions of every guild
    inflight,    \* a handleEvent / cleanupGuild call that is awaiting
    features,    \* FeatureRegistry.features, in insertion order
    defaultConfig, \* feature.config.defaultConfig of every feature object
    pending,     \* the API calls awaiting a hook or a handler, and the
                 \* signal handler once it runs: caller -> call
    now,         \* Date.now(), in milliseconds
    last         \* the most recent call: inputs and outcome

vars == <<commands, aliases, cooldowns, enabled, licenses, instances,
          botPermissions, inflight, features, defaultConfig, pending, now,
          last>>
registryVars == <<commands, aliases, cooldowns, enabled>>
catalogVars == <<features, defaultConfig>>
fanoutVars == <<inflight, catalogVars, pending>>
runtimeVars == <<instances, botPermissions, fanoutVars>>

\* ------------------------------------------------------------------ bounds
MaxNow == 1000

\* --------------------------------------------------------------- constants
MsPerSecond == 1000

NoTime == 0 - 1          \* an absent optional number (undefined)
NoGuild == ""            \* guild?.id || ""
NoMember == [present |-> FALSE]
NoHandler == "none"

Users == {"u1", "u2"}
OwnerIds == {"u1"}       \* process.env.OWNER_IDS
Guilds == {"g1"}
EventGuilds == {"g1", "g2"}
NoCall == [op |-> "none"]

\* ------------------------------------------------------------ Map helpers
EmptyMap == [k \in {} |-> k]
Has(m, k) == k \in DOMAIN m
Put(m, k, v) == [x \in (DOMAIN m) \cup {k} |-> IF x = k THEN v ELSE m[x]]
Del(m, k) == [x \in (DOMAIN m) \ {k} |-> m[x]]
Max(a, b) == IF a >= b THEN a ELSE b
SeqToSet(s) == {s[j] : j \in 1..Len(s)}

\* ------------------------------------------------- the handlers' metadata
NoBound == NoTime
ReasonArg ==
    [name |-> "reason", type |-> "string", required |-> TRUE,
     minLength |-> 2, maxLength |-> 3, minValue |-> NoBound,
     maxValue |-> NoBound, choices |-> <<>>]

\* texts a user types or reads are sequences of characters
Choice(name, value) == [name |-> name, value |-> value]
QueryChoices ==
    <<Choice(<<"A", "b">>, <<"b">>), Choice(<<"b">>, <<"a", "A">>),
      Choice(<<"b">>, <<"B">>)>>
QueryArg ==
    [name |-> "query", type |-> "string", required |-> FALSE,
     minLength |-> NoBound, maxLength |-> NoBound, minValue |-> NoBound,
     maxValue |-> NoBound, choices |-> QueryChoices, autocomplete |-> TRUE]
PlainArg ==
    [name |-> "plain", type |-> "string", required |-> FALSE,
     minLength |-> NoBound, maxLength |-> NoBound, minValue |-> NoBound,
     maxValue |-> NoBound, choices |-> QueryChoices, autocomplete |-> FALSE]

LongName == "abcdefghijklmnopqrstuvwxyz0123456"

Metadata ==
    [infoCommand |->
        [name |-> "info", description |-> "Bot information",
         aliases |-> <<>>, cooldown |-> 0,
         guildOnly |-> FALSE, ownerOnly |-> FALSE, premiumOnly |-> FALSE,
         enabled |-> TRUE, permissions |-> <<>>, roles |-> <<>>,
         arguments |-> <<>>],
     pingCommand |->
        [name |-> "ping", description |-> "Check latency",
         aliases |-> <<"p">>, cooldown |-> 1,
         guildOnly |-> FALSE, ownerOnly |-> FALSE, premiumOnly |-> FALSE,
         enabled |-> TRUE, permissions |-> <<>>, roles |-> <<>>,
         arguments |-> <<>>],
     adminCommand |->
        [name |-> "admin", description |-> "Administration",
         aliases |-> <<"a">>, cooldown |-> 1,
         guildOnly |-> TRUE, ownerOnly |-> TRUE, premiumOnly |-> TRUE,
         enabled |-> TRUE, permissions |-> <<"KickMembers">>,
         roles |-> <<"r1">>, arguments |-> <<ReasonArg>>],
     \* a second definition of ping, one that declares ping's alias, and
     \* definitions the schema rejects
     pingV2Command |->
        [name |-> "ping", description |-> "Check latency, again",
         aliases |-> <<"pp">>, cooldown |-> 0,
         guildOnly |-> FALSE, ownerOnly |-> FALSE, premiumOnly |-> FALSE,
         enabled |-> TRUE, permissions |-> <<>>, roles |-> <<>>,
         arguments |-> <<>>],
     pongCommand |->
        [name |-> "pong", description |-> "Answer a ping",
         aliases |-> <<"p", "po">>, cooldown |-> 0,
         guildOnly |-> FALSE, ownerOnly |-> FALSE, premiumOnly |-> FALSE,
         enabled |-> TRUE, permissions |-> <<>>, roles |-> <<>>,
         arguments |-> <<>>],
     longCommand |->
        [name |-> LongName, description |-> "Name of 33 characters",
         aliases |-> <<"l">>, cooldown |-> 0,
         guildOnly |-> FALSE, ownerOnly |-> FALSE, premiumOnly |-> FALSE,
         enabled |-> TRUE, permissions |-> <<>>, roles |-> <<>>,
         arguments |-> <<>>],
     blankCommand |->
        [name |-> "ping", description |-> "",
         aliases |-> <<"b">>, cooldown |-> 0,
         guildOnly |-> FALSE, ownerOnly |-> FALSE, premiumOnly |-> FALSE,
         enabled |-> TRUE, permissions |-> <<>>, roles |-> <<>>,
         arguments |-> <<>>],
     searchCommand |->
        [name |-> "search", description |-> "Search with suggestions",
         aliases |-> <<>>, cooldown |-> 0,
         guildOnly |-> FALSE, ownerOnly |-> TRUE, premiumOnly |-> FALSE,
         enabled |-> TRUE, permissions |-> <<>>, roles |-> <<>>,
         arguments |-> <<QueryArg, PlainArg>>]]

Handlers == DOMAIN Metadata

\* ------------------------------------------------- the features' config
\* FeatureRegistry.getAll(), in registration order
Features == <<"welcome", "moderation", "xp">>

FeatureConfig ==
    [welcome |-> [key |-> "welcome", isPremium |-> FALSE,
                  permissions |-> <<"SendMessages">>,
                  defaultConfig |-> [enabled |-> "true",
                                     channelId |-> "null"]],
     moderation |-> [key |-> "moderation", isPremium |-> TRUE,
                     permissions |-> <<"KickMembers", "SendMessages">>,
                     defaultConfig |-> [enabled |-> "false",
                                        logChannelId |-> "null"]],
     xp |-> [key |-> "xp", isPremium |-> FALSE, permissions |-> <<>>,
             defaultConfig |-> [enabled |-> "true"]]]

NoMe == {"<none>"}       \* guild.members.me is null

\* --------------------------------------------------------- CommandRegistry
\* register(), lines 124-137: index the aliases, skipping the ones taken
RECURSIVE AddAliases(_, _, _, _)
AddAliases(al, as, j, name) ==
    IF j > Len(as) THEN al
    ELSE IF Has(al, as[j]) THEN AddAliases(al, as, j + 1, name)
    ELSE AddAliases(Put(al, as[j], name), as, j + 1, name)

RECURSIVE RemoveAliases(_, _, _)
RemoveAliases(al, as, j) ==
    IF j > Len(as) THEN al ELSE RemoveAliases(Del(al, as[j]), as, j + 1)

\* get(name): the direct name first, then the alias index
Get(name) ==
    IF Has(commands, name) THEN commands[name]
    ELSE IF Has(aliases, name) /\ Has(commands, aliases[name])
         THEN commands[aliases[name]]
    ELSE NoHandler

IsOnCooldown(commandName, userId, t) ==
    IF ~Has(cooldowns, commandName) THEN 0
    ELSE IF ~Has(cooldowns[commandName], userId) THEN 0
    ELSE Max(0, cooldowns[commandName][userId] - t)

\* stores the duration instead of the expiry
SetCooldownDuration(commandName, userId, durationMs, t) ==
    LET inner == IF Has(cooldowns, commandName) THEN cooldowns[commandName]
                 ELSE EmptyMap
    IN  Put(cooldowns, commandName, Put(inner, userId, durationMs))

SetCooldown(commandName, userId, durationMs, t) ==
    LET inner == IF Has(cooldowns, commandName) THEN cooldowns[commandName]
                 ELSE EmptyMap
    IN  Put(cooldowns, commandName, Put(inner, userId, t + durationMs))

\* ------------------------------------------------------------ LicenseManager
\* validateFeatureAccess without the test on revokedAt
ValidateFeatureAccessIgnoresRevocation(guildId, featureKey) ==
    IF ~Has(licenses, guildId)
    THEN [valid |-> FALSE, reason |-> "No license found for this guild"]
    ELSE LET license == licenses[guildId] IN
         IF license.expiresAt # NoTime /\ license.expiresAt < now
         THEN [valid |-> FALSE, reason |-> "License has expired"]
         ELSE IF featureKey \notin license.features
         THEN [valid |-> FALSE, reason |-> "Feature is not included in this license"]
         ELSE [valid |-> TRUE, reason |-> ""]

ValidateFeatureAccess(guildId, featureKey) ==
    IF ~Has(licenses, guildId)
    THEN [valid |-> FALSE, reason |-> "No license found for this guild"]
    ELSE LET license == licenses[guildId] IN
         IF license.expiresAt # NoTime /\ license.expiresAt < now
         THEN [valid |-> FALSE, reason |-> "License has expired"]
         ELSE IF license.revokedAt # NoTime
         THEN [valid |-> FALSE, reason |-> "License has been revoked"]
         ELSE IF featureKey \notin license.features
         THEN [valid |-> FALSE, reason |-> "Feature is not included in this license"]
         ELSE [valid |-> TRUE, reason |-> ""]

HasPremiumAccess(guildId) ==
    IF ~Has(licenses, guildId) THEN FALSE
    ELSE \/ ValidateFeatureAccess(guildId, "").valid
         \/ licenses[guildId].type = "premium"
         \/ licenses[guildId].type = "enterprise"

\* ------------------------------------------------------------- CommandParser
NullValue == [type |-> "null"]
Truthy(n) == n # NoBound /\ n # 0

\* interaction.options.getString(name) and its siblings: null when the option
\* is absent; discord.js throws when the option has another type
ExtractArgumentValue(options, argDef) ==
    IF ~Has(options, argDef.name) THEN NullValue
    ELSE IF options[argDef.name].type # argDef.type THEN [type |-> "throw"]
    ELSE options[argDef.name]

\* validateArgumentType: "ok" or the error thrown
ValidateArgumentType(value, argDef) ==
    LET typeError ==
            CASE argDef.type = "string" ->
                    IF Truthy(argDef.minLength) /\ Len(value.v) < argDef.minLength
                    THEN "String too short"
                    ELSE IF Truthy(argDef.maxLength) /\ Len(value.v) > argDef.maxLength
                    THEN "String too long"
                    ELSE "ok"
              [] argDef.type \in {"integer", "number"} ->
                    IF argDef.minValue # NoBound /\ value.v < argDef.minValue
                    THEN "Value too small"
                    ELSE IF argDef.maxValue # NoBound /\ value.v > argDef.maxValue
                    THEN "Value too large"
                    ELSE "ok"
              [] OTHER -> "ok"
    IN  IF typeError # "ok" THEN typeError
        ELSE IF /\ Len(argDef.choices) > 0
                /\ value.v \notin {c.value : c \in SeqToSet(argDef.choices)}
        THEN "Invalid choice"
        ELSE "ok"

\* parseArguments adding a key for every definition, supplied or not
RECURSIVE ParseFromKeepsNull(_, _, _, _)
ParseFromKeepsNull(options, argDefs, j, args) ==
    IF j > Len(argDefs) THEN [ok |-> TRUE, error |-> "", args |-> args]
    ELSE LET argDef == argDefs[j]
             value == ExtractArgumentValue(options, argDef)
         IN  IF value.type = "throw"
             THEN [ok |-> FALSE, error |-> "Option type mismatch", args |-> args]
             ELSE IF argDef.required /\ value = NullValue
             THEN [ok |-> FALSE, error |-> "Required argument is missing", args |-> args]
             ELSE IF value # NullValue
             THEN LET v == ValidateArgumentType(value, argDef) IN
                  IF v # "ok" THEN [ok |-> FALSE, error |-> v, args |-> args]
                  ELSE ParseFromKeepsNull(options, argDefs, j + 1,
                                          Put(args, argDef.name, value.v))
             ELSE ParseFromKeepsNull(options, argDefs, j + 1,
                                     Put(args, argDef.name, NullValue))

\* parseArguments: the first failing definition throws; otherwise the
\* arguments that have a value
RECURSIVE ParseFrom(_, _, _, _)
ParseFrom(options, argDefs, j, args) ==
    IF j > Len(argDefs) THEN [ok |-> TRUE, error |-> "", args |-> args]
    ELSE LET argDef == argDefs[j]
             value == ExtractArgumentValue(options, argDef)
         IN  IF value.type = "throw"
             THEN [ok |-> FALSE, error |-> "Option type mismatch", args |-> args]
             ELSE IF argDef.required /\ value = NullValue
             THEN [ok |-> FALSE, error |-> "Required argument is missing", args |-> args]
             ELSE IF value # NullValue
             THEN LET v == ValidateArgumentType(value, argDef) IN
                  IF v # "ok" THEN [ok |-> FALSE, error |-> v, args |-> args]
                  ELSE ParseFrom(options, argDefs, j + 1, Put(args, argDef.name, value.v))
             ELSE ParseFrom(options, argDefs, j + 1, args)

ParseArguments(options, argumentDefinitions) ==
    ParseFrom(options, argumentDefinitions, 1, EmptyMap)

\* a call of parseArguments on the invocation and the definitions the caller
\* holds; the parser keeps no state
ParseArgumentsCall ==
    /\ last.op = "invocation"
    /\ last' = [op |-> "parseArguments", seq |-> 1 - last.seq,
                options |-> last.options, argDefs |-> last.argDefs,
                result |-> ParseArguments(last.options, last.argDefs)]
    /\ UNCHANGED <<registryVars, licenses, now, runtimeVars>>

\* String.prototype.toLowerCase and includes, over the letters a, A, b, B
Lower(c) == CASE c = "A" -> "a" [] c = "B" -> "b" [] OTHER -> c
ToLowerCase(s) == [j \in 1..Len(s) |-> Lower(s[j])]
Includes(s, t) ==
    \E k \in 0..(Len(s) - Len(t)) : SubSeq(s, k + 1, k + Len(t)) = t

\* the filter of handleAutocomplete: the name or the value holds the text
Matches(option, focusedValue) ==
    \/ Includes(ToLowerCase(option.name), ToLowerCase(focusedValue))
    \/ Includes(ToLowerCase(option.value), ToLowerCase(focusedValue))
Filter(options, focusedValue) ==
    LET Test(o) == Matches(o, focusedValue) IN SelectSeq(options, Test)

\* Array.prototype.slice(0, n)
Slice(s, n) == SubSeq(s, 1, IF Len(s) < n THEN Len(s) ELSE n)

MaxSuggestions == 25

\* passes every filtered option to the transport
SuggestionsUnbounded(options, focusedValue) == Filter(options, focusedValue)

\* the list given to interaction.respond
Suggestions(options, focusedValue) ==
    Slice(Filter(options, focusedValue), MaxSuggestions)

\* argumentDefinitions.find(arg => arg.name === name): its index, 0 if none
Find(argDefs, name) ==
    LET found == {j \in 1..Len(argDefs) : argDefs[j].name = name} IN
    IF found = {} THEN 0
    ELSE CHOOSE j \in found : \A q \in found : j <= q

\* a call that gives nothing to the transport
NoSuggestions ==
    [sourceCalled |-> FALSE, candidates |-> <<>>, passed |-> FALSE,
     sent |-> <<>>, responded |-> FALSE, caught |-> FALSE, raised |-> FALSE]

\* the parser's handleAutocomplete with the catch rethrowing
ParserAutocompleteUncaught(focused, argDefs, source, respondFails) ==
    LET j == Find(argDefs, focused.name) IN
    IF j = 0 THEN NoSuggestions
    ELSE IF ~argDefs[j].autocomplete THEN NoSuggestions
    ELSE IF source.mode \in {"reject", "throw"}
    THEN [NoSuggestions EXCEPT !.sourceCalled = TRUE, !.caught = TRUE,
                               !.raised = TRUE]
    ELSE LET options == IF source.mode = "custom" THEN source.options
                        ELSE argDefs[j].choices
         IN  [sourceCalled |-> source.mode = "custom", candidates |-> options,
              passed |-> TRUE, sent |-> Suggestions(options, focused.value),
              responded |-> ~respondFails, caught |-> respondFails,
              raised |-> respondFails]

\* the parser's handleAutocomplete: what it filtered, what it passed to
\* interaction.respond, whether its catch took an error and whether the call
\* raised. The source is the third parameter: absent ("static"), or a
\* function that returns options ("custom"), rejects or throws. The static
\* choices have string values, which value.toString() returns as they are.
ParserAutocomplete(focused, argDefs, source, respondFails) ==
    LET j == Find(argDefs, focused.name) IN
    IF j = 0 THEN NoSuggestions
    ELSE IF ~argDefs[j].autocomplete THEN NoSuggestions
    ELSE IF source.mode \in {"reject", "throw"}
    THEN [NoSuggestions EXCEPT !.sourceCalled = TRUE, !.caught = TRUE]
    ELSE LET options == IF source.mode = "custom" THEN source.options
                        ELSE argDefs[j].choices
         IN  [sourceCalled |-> source.mode = "custom", candidates |-> options,
              passed |-> TRUE, sent |-> Suggestions(options, focused.value),
              responded |-> ~respondFails, caught |-> respondFails,
              raised |-> FALSE]

\* parser.handleAutocomplete called with the definitions of the input; with
\* no source the input's options are the declared choices of the argument
ParserHandleAutocomplete ==
    /\ last.op = "autocomplete"
    /\ LET i == last.inv
           argDefs == IF i.source.mode = "static"
                      THEN <<[QueryArg EXCEPT !.choices = i.source.options],
                             PlainArg>>
                      ELSE <<QueryArg, PlainArg>>
       IN  last' = [op |-> "parser.handleAutocomplete", seq |-> 1 - last.seq,
                    inv |-> i,
                    out |-> ParserAutocomplete(i.focused, argDefs, i.source,
                                               i.respondFails)]
    /\ UNCHANGED <<registryVars, licenses, now, runtimeVars>>

\* ----------------------------------------------------------- CommandExecutor
\* checkPermissions without the required-roles loop
CheckPermissionsNoRoles(i, metadata) ==
    LET isOwner == i.user \in OwnerIds
        hasPermission(p) == i.member.present /\ p \in i.member.permissions
    IN  IF metadata.ownerOnly /\ ~isOwner THEN FALSE
        ELSE IF metadata.guildOnly /\ i.guild = NoGuild THEN FALSE
        ELSE IF \E p \in SeqToSet(metadata.permissions) : ~hasPermission(p) THEN FALSE
        ELSE TRUE

\* checkPermissions(context, handler)
CheckPermissions(i, metadata) ==
    LET isOwner == i.user \in OwnerIds
        hasPermission(p) == i.member.present /\ p \in i.member.permissions
        hasRole(r) == i.member.present /\ r \in i.member.roles
    IN  IF metadata.ownerOnly /\ ~isOwner THEN FALSE
        ELSE IF metadata.guildOnly /\ i.guild = NoGuild THEN FALSE
        ELSE IF \E p \in SeqToSet(metadata.permissions) : ~hasPermission(p) THEN FALSE
        ELSE IF \E r \in SeqToSet(metadata.roles) : ~hasRole(r) THEN FALSE
        ELSE TRUE

Thrown(message, remaining, ran) ==
    [error |-> message, remaining |-> remaining, ran |-> ran]

\* the try block with the permission check ahead of the cooldown check
TryBlockPermissionFirst(i) ==
    LET handler == Get(i.commandName) IN
    IF handler = NoHandler THEN Thrown("Unknown command", 0, FALSE)
    ELSE IF ~enabled[handler] THEN Thrown("Command is currently disabled", 0, FALSE)
    ELSE IF ~CheckPermissions(i, Metadata[handler])
    THEN Thrown("You don't have permission to use this command.", 0, FALSE)
    ELSE LET cooldownRemaining == IsOnCooldown(i.commandName, i.user, now) IN
         IF cooldownRemaining > 0
         THEN Thrown("Command is on cooldown", cooldownRemaining, FALSE)
         ELSE IF Metadata[handler].premiumOnly /\ ~HasPremiumAccess(i.guild)
         THEN Thrown("This command requires a premium subscription.", 0, FALSE)
         ELSE LET parsed == ParseArguments(i.options, Metadata[handler].arguments) IN
              IF ~parsed.ok THEN Thrown(parsed.error, 0, FALSE)
              ELSE IF i.handler.outcome = "throw" THEN Thrown("handler error", 0, TRUE)
              ELSE Thrown("", 0, TRUE)

\* the try block of executeCommand: the error thrown ("" when none), the
\* cooldown remaining when it was the cooldown error, and whether
\* handler.execute was called
TryBlock(i) ==
    LET handler == Get(i.commandName) IN
    IF handler = NoHandler THEN Thrown("Unknown command", 0, FALSE)
    ELSE IF ~enabled[handler] THEN Thrown("Command is currently disabled", 0, FALSE)
    ELSE LET cooldownRemaining == IsOnCooldown(i.commandName, i.user, now) IN
         IF cooldownRemaining > 0
         THEN Thrown("Command is on cooldown", cooldownRemaining, FALSE)
         ELSE IF ~CheckPermissions(i, Metadata[handler])
         THEN Thrown("You don't have permission to use this command.", 0, FALSE)
         ELSE IF Metadata[handler].premiumOnly /\ ~HasPremiumAccess(i.guild)
         THEN Thrown("This command requires a premium subscription.", 0, FALSE)
         ELSE LET parsed == ParseArguments(i.options, Metadata[handler].arguments) IN
              IF ~parsed.ok THEN Thrown(parsed.error, 0, FALSE)
              ELSE IF i.handler.outcome = "throw" THEN Thrown("handler error", 0, TRUE)
              ELSE Thrown("", 0, TRUE)

\* writes the record without looking at the cooldown duration
CooldownAfterAlways(i, t) ==
    LET handler == Get(i.commandName) IN
    SetCooldown(i.commandName, i.user, Metadata[handler].cooldown * MsPerSecond, t)

\* the cooldown written after handler.execute returned, at time t
CooldownAfter(i, t) ==
    LET handler == Get(i.commandName) IN
    IF Metadata[handler].cooldown > 0
    THEN SetCooldown(i.commandName, i.user, Metadata[handler].cooldown * MsPerSecond, t)
    ELSE cooldowns

NoReply == [mode |-> "none", delivered |-> FALSE, threw |-> FALSE]

\* always replies, also to an interaction already replied to
SendErrorReplyAlwaysReply(i, acked) ==
    [mode |-> "reply", delivered |-> ~i.replyFails, threw |-> FALSE]

\* the failure of the reply is not caught
SendErrorReplyUncaught(i, acked) ==
    [mode |-> IF acked THEN "editReply" ELSE "reply",
     delivered |-> ~i.replyFails,
     threw |-> i.replyFails]

\* the test on replied/deferred is inverted
SendErrorReplyInverted(i, acked) ==
    [mode |-> IF acked THEN "reply" ELSE "editReply",
     delivered |-> ~i.replyFails,
     threw |-> FALSE]

\* the error reply of the catch block: editReply when the interaction was
\* replied to or deferred, reply otherwise; its own failure is logged
SendErrorReply(i, acked) ==
    [mode |-> IF acked THEN "editReply" ELSE "reply",
     delivered |-> ~i.replyFails,
     threw |-> FALSE]

Ceil(n, d) == (n + d - 1) \div d

ExecuteCommand(i) ==
    LET r == TryBlock(i)
        t == IF r.ran THEN now + i.handler.elapsed ELSE now
        acked == r.ran /\ i.handler.acked
        reply == IF r.error = "" THEN NoReply ELSE SendErrorReply(i, acked)
    IN  /\ t <= MaxNow
        /\ now' = t
        /\ cooldowns' = IF r.error = "" THEN CooldownAfter(i, t) ELSE cooldowns
        /\ last' = [op |-> "executeCommand", seq |-> 1 - last.seq, inv |-> i,
                    handler |-> Get(i.commandName),
                    threw |-> reply.threw,
                    success |-> r.error = "", error |-> r.error,
                    remaining |-> r.remaining,
                    seconds |-> Ceil(r.remaining, MsPerSecond),
                    ran |-> r.ran, replyMode |-> reply.mode,
                    delivered |-> reply.delivered,
                    replies |-> (IF reply.mode = "none" THEN 0 ELSE 1)
                                + (IF acked THEN 1 ELSE 0),
                    start |-> now, at |-> t]
        /\ UNCHANGED <<commands, aliases, enabled, licenses, runtimeVars>>

\* executeCommand up to `await handler.execute(context)`, lines 48-111: every
\* check has passed and the handler is called; the call keeps its handler
ExecuteStart(t, i) ==
    /\ ~Has(pending, t)
    /\ TryBlock(i).ran
    /\ pending' = Put(pending, t,
                      [op |-> "executeCommand", inv |-> i,
                       handler |-> Get(i.commandName), start |-> now])
    /\ last' = [op |-> "execute", seq |-> 1 - last.seq, caller |-> t, inv |-> i,
                handler |-> Get(i.commandName)]
    /\ UNCHANGED <<registryVars, licenses, instances, botPermissions,
                   inflight, catalogVars, now>>

\* handler.execute settles: lines 113-119 write the cooldown of the handler
\* the call holds, counted from now; the catch of line 139 replies to a failure
ExecuteFinish(t) ==
    /\ Has(pending, t)
    /\ pending[t].op = "executeCommand"
    /\ LET c == pending[t]
           ok == c.inv.handler.outcome = "ok"
           acked == c.inv.handler.acked
           reply == IF ok THEN NoReply ELSE SendErrorReply(c.inv, acked)
       IN  /\ cooldowns' =
                IF ok /\ Metadata[c.handler].cooldown > 0
                THEN SetCooldown(c.inv.commandName, c.inv.user,
                                 Metadata[c.handler].cooldown * MsPerSecond, now)
                ELSE cooldowns
           /\ last' = [op |-> "executeCommand", seq |-> 1 - last.seq,
                       inv |-> c.inv, handler |-> c.handler,
                       threw |-> reply.threw, success |-> ok,
                       error |-> IF ok THEN "" ELSE "handler error",
                       remaining |-> 0, seconds |-> 0, ran |-> TRUE,
                       replyMode |-> reply.mode,
                       delivered |-> reply.delivered,
                       replies |-> (IF reply.mode = "none" THEN 0 ELSE 1)
                                   + (IF acked THEN 1 ELSE 0),
                       start |-> c.start, at |-> now]
    /\ pending' = Del(pending, t)
    /\ UNCHANGED <<commands, aliases, enabled, licenses, instances,
                   botPermissions, inflight, catalogVars, now>>

\* the executor's handleAutocomplete: no handler, or no permission, gives
\* nothing; otherwise the parser's, with the handler's arguments and its
\* autocompleteOptions, inside the executor's own try
ExecutorAutocomplete(i) ==
    LET handler == Get(i.commandName) IN
    IF handler = NoHandler THEN NoSuggestions
    ELSE IF ~CheckPermissions(i, Metadata[handler]) THEN NoSuggestions
    ELSE LET r == ParserAutocomplete(i.focused, Metadata[handler].arguments,
                                     i.source, i.respondFails)
         IN  [r EXCEPT !.caught = r.caught \/ r.raised, !.raised = FALSE]

ExecutorHandleAutocomplete ==
    /\ last.op = "autocomplete"
    /\ last' = [op |-> "executor.handleAutocomplete", seq |-> 1 - last.seq,
                inv |-> last.inv, out |-> ExecutorAutocomplete(last.inv)]
    /\ UNCHANGED <<registryVars, licenses, now, runtimeVars>>

\* ------------------------------------------------- CommandRegistry, actions
\* CommandMetadataSchema.parse accepts the metadata
MaxNameLength == 32
MaxDescriptionLength == 100
MetadataIsValid(md) ==
    /\ Len(md.name) >= 1 /\ Len(md.name) <= MaxNameLength
    /\ Len(md.description) >= 1 /\ Len(md.description) <= MaxDescriptionLength
    /\ md.cooldown >= 0

\* register where a declared alias always takes the alias over
RegisterOutcomeAliasOverwrite(h) ==
    LET md == Metadata[h] IN
    IF ~MetadataIsValid(md)
    THEN [commands |-> commands, aliases |-> aliases, result |-> FALSE]
    ELSE [commands |-> Put(commands, md.name, h),
          aliases |-> [a \in DOMAIN aliases \cup SeqToSet(md.aliases) |->
                         IF a \in SeqToSet(md.aliases) THEN md.name
                         ELSE aliases[a]],
          result |-> TRUE]

\* register(command): the maps afterwards and the value returned
RegisterOutcome(h) ==
    LET md == Metadata[h] IN
    IF ~MetadataIsValid(md)
    THEN [commands |-> commands, aliases |-> aliases, result |-> FALSE]
    ELSE [commands |-> Put(commands, md.name, h),
          aliases |-> AddAliases(aliases, md.aliases, 1, md.name),
          result |-> TRUE]

Register(h) ==
    LET r == RegisterOutcome(h) IN
    /\ commands' = r.commands
    /\ aliases' = r.aliases
    /\ last' = [op |-> "register", seq |-> 1 - last.seq, handler |-> h,
                result |-> r.result]
    /\ UNCHANGED <<cooldowns, enabled, licenses, now, runtimeVars>>

Deregister(name) ==
    /\ IF Has(commands, name)
       THEN /\ commands' = Del(commands, name)
            /\ aliases' = RemoveAliases(aliases, Metadata[commands[name]].aliases, 1)
            /\ cooldowns' = Del(cooldowns, name)
       ELSE UNCHANGED <<commands, aliases, cooldowns>>
    /\ last' = [op |-> "deregister", seq |-> 1 - last.seq, name |-> name,
                result |-> Has(commands, name)]
    /\ UNCHANGED <<enabled, licenses, now, runtimeVars>>

\* disabling also drops the cooldown records of the command
SetEnabledForgets(name, value) ==
    /\ enabled' = IF Has(commands, name)
                  THEN [enabled EXCEPT ![commands[name]] = value]
                  ELSE enabled
    /\ cooldowns' = IF Has(commands, name) /\ ~value THEN Del(cooldowns, name)
                    ELSE cooldowns
    /\ last' = [op |-> "setEnabled", seq |-> 1 - last.seq, name |-> name,
                value |-> value,
                was |-> Has(commands, name) /\ enabled[commands[name]],
                result |-> Has(commands, name)]
    /\ UNCHANGED <<commands, aliases, licenses, now, runtimeVars>>

\* setEnabled(name, enabled): the flag is a field of the registered handler's
\* metadata; "was" keeps the flag the call found
SetEnabled(name, value) ==
    /\ enabled' = IF Has(commands, name)
                  THEN [enabled EXCEPT ![commands[name]] = value]
                  ELSE enabled
    /\ last' = [op |-> "setEnabled", seq |-> 1 - last.seq, name |-> name,
                value |-> value,
                was |-> Has(commands, name) /\ enabled[commands[name]],
                result |-> Has(commands, name)]
    /\ UNCHANGED <<commands, aliases, cooldowns, licenses, now, runtimeVars>>

ClearCooldown(commandName, userId) ==
    /\ cooldowns' = IF Has(cooldowns, commandName)
                    THEN [cooldowns EXCEPT ![commandName] = Del(@, userId)]
                    ELSE cooldowns
    /\ last' = [op |-> "clearCooldown", seq |-> 1 - last.seq,
                commandName |-> commandName, userId |-> userId]
    /\ UNCHANGED <<commands, aliases, enabled, licenses, now, runtimeVars>>

ClearAllCooldowns ==
    /\ cooldowns' = EmptyMap
    /\ last' = [op |-> "clearAllCooldowns", seq |-> 1 - last.seq]
    /\ UNCHANGED <<commands, aliases, enabled, licenses, now, runtimeVars>>

\* -------------------------------------------------- LicenseManager, actions
\* stores the record before looking at its expiry and revocation
RegisterLicenseStoresFirst(license) ==
    LET ok == ~(license.expiresAt # NoTime /\ license.expiresAt < now)
              /\ license.revokedAt = NoTime
    IN  /\ licenses' = Put(licenses, license.guildId, license)
        /\ last' = [op |-> "registerLicense", seq |-> 1 - last.seq,
                    license |-> license, result |-> ok]
        /\ UNCHANGED <<commands, aliases, cooldowns, enabled, now, runtimeVars>>

RegisterLicense(license) ==
    LET ok == ~(license.expiresAt # NoTime /\ license.expiresAt < now)
              /\ license.revokedAt = NoTime
    IN  /\ licenses' = IF ok THEN Put(licenses, license.guildId, license) ELSE licenses
        /\ last' = [op |-> "registerLicense", seq |-> 1 - last.seq,
                    license |-> license, result |-> ok]
        /\ UNCHANGED <<commands, aliases, cooldowns, enabled, now, runtimeVars>>

\* reports the revocation without writing revokedAt
RevokeLicenseNoMark(guildId) ==
    /\ last' = [op |-> "revokeLicense", seq |-> 1 - last.seq, guildId |-> guildId,
                result |-> Has(licenses, guildId)]
    /\ UNCHANGED <<commands, aliases, cooldowns, enabled, licenses, now,
                   runtimeVars>>

RevokeLicense(guildId) ==
    /\ licenses' = IF Has(licenses, guildId)
                   THEN [licenses EXCEPT ![guildId].revokedAt = now]
                   ELSE licenses
    /\ last' = [op |-> "revokeLicense", seq |-> 1 - last.seq, guildId |-> guildId,
                result |-> Has(licenses, guildId)]
    /\ UNCHANGED <<commands, aliases, cooldowns, enabled, now, runtimeVars>>

\* a call of validateFeatureAccess: it reads the record and writes nothing
ValidateFeatureAccessCall(guildId, featureKey) ==
    /\ last' = [op |-> "validateFeatureAccess", seq |-> 1 - last.seq,
                guildId |-> guildId, featureKey |-> featureKey,
                result |-> ValidateFeatureAccess(guildId, featureKey)]
    /\ UNCHANGED <<registryVars, licenses, now, runtimeVars>>

\* cleanupExpiredLicenses: deletes the records whose expiry has passed
CleanupExpiredLicenses ==
    LET expired == {g \in DOMAIN licenses :
                       /\ licenses[g].expiresAt # NoTime
                       /\ licenses[g].expiresAt < now}
    IN  /\ licenses' = [g \in DOMAIN licenses \ expired |-> licenses[g]]
        /\ last' = [op |-> "cleanupExpiredLicenses", seq |-> 1 - last.seq,
                    cleaned |-> Cardinality(expired)]
        /\ UNCHANGED <<registryVars, now, runtimeVars>>

\* -------------------------------------------------------------- FeatureLoader
\* accepts a feature as soon as the bot holds one of its permissions
ValidateFeaturePermissionsAny(guildId, key) ==
    IF botPermissions[guildId] = NoMe THEN FALSE
    ELSE \/ FeatureConfig[key].permissions = <<>>
         \/ \E p \in SeqToSet(FeatureConfig[key].permissions) :
                p \in botPermissions[guildId]

\* validateFeaturePermissions(guild, feature).valid
ValidateFeaturePermissions(guildId, key) ==
    IF botPermissions[guildId] = NoMe THEN FALSE
    ELSE {p \in SeqToSet(FeatureConfig[key].permissions) :
            p \notin botPermissions[guildId]} = {}

\* initializeGuildFeatures giving up at the first register hook that fails
RECURSIVE InitializeFromStopsAtFailure(_, _, _, _, _)
InitializeFromStopsAtFailure(guildId, hooks, j, guildInstances, called) ==
    IF j > Len(Features) THEN [instances |-> guildInstances, called |-> called]
    ELSE LET key == Features[j] IN
         IF ~ValidateFeaturePermissions(guildId, key)
         THEN InitializeFromStopsAtFailure(guildId, hooks, j + 1,
                                           guildInstances, called)
         ELSE IF hooks[key] = "throw"
         THEN [instances |-> guildInstances, called |-> called \cup {key}]
         ELSE InitializeFromStopsAtFailure(guildId, hooks, j + 1,
                             Put(guildInstances, key,
                                 [enabled |-> FALSE, context |-> guildId,
                                  config |-> defaultConfig[key]]),
                             called \cup {key})

\* initializeFeatureForGuild for the features from index j on: the records
\* created and the features whose register hook was called
RECURSIVE InitializeFrom(_, _, _, _, _)
InitializeFrom(guildId, hooks, j, guildInstances, called) ==
    IF j > Len(Features) THEN [instances |-> guildInstances, called |-> called]
    ELSE LET key == Features[j] IN
         IF ~ValidateFeaturePermissions(guildId, key)
         THEN InitializeFrom(guildId, hooks, j + 1, guildInstances, called)
         ELSE IF hooks[key] = "throw"
         THEN InitializeFrom(guildId, hooks, j + 1, guildInstances,
                             called \cup {key})
         ELSE InitializeFrom(guildId, hooks, j + 1,
                             Put(guildInstances, key,
                                 [enabled |-> FALSE, context |-> guildId,
                                  config |-> defaultConfig[key]]),
                             called \cup {key})

\* the records of guildId leave the instances map (its entry is replaced, line
\* 219, or deleted, line 551): a call that awaits a hook of one of them keeps
\* its instance object, which is no longer the record of the map
Detach(guildId) ==
    [t \in DOMAIN pending |->
        IF /\ pending[t].op \in {"enableFeature", "disableFeature"}
           /\ pending[t].guildId = guildId
        THEN [pending[t] EXCEPT !.attached = FALSE]
        ELSE pending[t]]

InitializeGuildFeatures(guildId, hooks) ==
    LET r == InitializeFrom(guildId, hooks, 1, EmptyMap, {}) IN
    /\ \A k \in DOMAIN hooks : k \in r.called \/ hooks[k] = "ok"
    /\ instances' = Put(instances, guildId, r.instances)
    /\ pending' = Detach(guildId)
    /\ last' = [op |-> "initializeGuildFeatures", seq |-> 1 - last.seq,
                guildId |-> guildId, hooks |-> hooks, registered |-> r.called]
    /\ UNCHANGED <<registryVars, licenses, botPermissions, inflight,
                   catalogVars, now>>

Outcome(result, error, hookCalled) ==
    [result |-> result, error |-> error, hookCalled |-> hookCalled]

\* enableFeature without the license check
EnableOutcomeNoLicense(guildId, featureKey, hook) ==
    IF ~Has(instances, guildId) THEN Outcome(FALSE, "Guild not found", FALSE)
    ELSE IF ~Has(instances[guildId], featureKey)
    THEN Outcome(FALSE, "Feature not found for guild", FALSE)
    ELSE IF instances[guildId][featureKey].enabled THEN Outcome(TRUE, "", FALSE)
    ELSE IF hook = "throw" THEN Outcome(FALSE, "enable hook failed", TRUE)
    ELSE Outcome(TRUE, "", TRUE)

\* enableFeature without the early return of an enabled feature
EnableOutcomeNoEarlyReturn(guildId, featureKey, hook) ==
    IF ~Has(instances, guildId) THEN Outcome(FALSE, "Guild not found", FALSE)
    ELSE IF ~Has(instances[guildId], featureKey)
    THEN Outcome(FALSE, "Feature not found for guild", FALSE)
    ELSE IF /\ FeatureConfig[featureKey].isPremium
            /\ ~ValidateFeatureAccess(guildId, featureKey).valid
    THEN Outcome(FALSE, "Premium feature requires valid license", FALSE)
    ELSE IF hook = "throw" THEN Outcome(FALSE, "enable hook failed", TRUE)
    ELSE Outcome(TRUE, "", TRUE)

\* enableFeature treating a missing record like an enabled one
EnableOutcomeMissingIsEnabled(guildId, featureKey, hook) ==
    IF ~Has(instances, guildId) THEN Outcome(FALSE, "Guild not found", FALSE)
    ELSE IF \/ ~Has(instances[guildId], featureKey)
            \/ instances[guildId][featureKey].enabled
    THEN Outcome(TRUE, "", FALSE)
    ELSE IF /\ FeatureConfig[featureKey].isPremium
            /\ ~ValidateFeatureAccess(guildId, featureKey).valid
    THEN Outcome(FALSE, "Premium feature requires valid license", FALSE)
    ELSE IF hook = "throw" THEN Outcome(FALSE, "enable hook failed", TRUE)
    ELSE Outcome(TRUE, "", TRUE)

\* enableFeature: the value returned, the error caught, and whether the
\* enable hook was called
\* enableFeature asking for the license of every feature, premium or not
EnableOutcomeLicenseForAll(guildId, featureKey, hook) ==
    IF ~Has(instances, guildId) THEN Outcome(FALSE, "Guild not found", FALSE)
    ELSE IF ~Has(instances[guildId], featureKey)
    THEN Outcome(FALSE, "Feature not found for guild", FALSE)
    ELSE IF instances[guildId][featureKey].enabled THEN Outcome(TRUE, "", FALSE)
    ELSE IF ~ValidateFeatureAccess(guildId, featureKey).valid
    THEN Outcome(FALSE, "Premium feature requires valid license", FALSE)
    ELSE IF hook = "throw" THEN Outcome(FALSE, "enable hook failed", TRUE)
    ELSE Outcome(TRUE, "", TRUE)

EnableOutcome(guildId, featureKey, hook) ==
    IF ~Has(instances, guildId) THEN Outcome(FALSE, "Guild not found", FALSE)
    ELSE IF ~Has(instances[guildId], featureKey)
    THEN Outcome(FALSE, "Feature not found for guild", FALSE)
    ELSE IF instances[guildId][featureKey].enabled THEN Outcome(TRUE, "", FALSE)
    ELSE IF /\ FeatureConfig[featureKey].isPremium
            /\ ~ValidateFeatureAccess(guildId, featureKey).valid
    THEN Outcome(FALSE, "Premium feature requires valid license", FALSE)
    ELSE IF hook = "throw" THEN Outcome(FALSE, "enable hook failed", TRUE)
    ELSE Outcome(TRUE, "", TRUE)

EnableFeature(guildId, featureKey, hook) ==
    LET r == EnableOutcome(guildId, featureKey, hook) IN
    /\ r.hookCalled \/ hook = "ok"
    /\ instances' = IF r.result /\ r.hookCalled
                    THEN [instances EXCEPT ![guildId][featureKey].enabled = TRUE]
                    ELSE instances
    /\ last' = [op |-> "enableFeature", seq |-> 1 - last.seq,
                guildId |-> guildId, featureKey |-> featureKey, hook |-> hook,
                result |-> r.result, error |-> r.error,
                hookCalled |-> r.hookCalled]
    /\ UNCHANGED <<registryVars, licenses, botPermissions, fanoutVars, now>>

\* disableFeature: the value returned and whether the disable hook was called
DisableOutcome(guildId, featureKey, hook) ==
    IF ~Has(instances, guildId) THEN Outcome(FALSE, "", FALSE)
    ELSE IF ~Has(instances[guildId], featureKey) THEN Outcome(TRUE, "", FALSE)
    ELSE IF ~instances[guildId][featureKey].enabled THEN Outcome(TRUE, "", FALSE)
    ELSE IF hook = "throw" THEN Outcome(FALSE, "disable hook failed", TRUE)
    ELSE Outcome(TRUE, "", TRUE)

DisableFeature(guildId, featureKey, hook) ==
    LET r == DisableOutcome(guildId, featureKey, hook) IN
    /\ r.hookCalled \/ hook = "ok"
    /\ instances' = IF r.result /\ r.hookCalled
                    THEN [instances EXCEPT ![guildId][featureKey].enabled = FALSE]
                    ELSE instances
    /\ last' = [op |-> "disableFeature", seq |-> 1 - last.seq,
                guildId |-> guildId, featureKey |-> featureKey, hook |-> hook,
                result |-> r.result, error |-> r.error,
                hookCalled |-> r.hookCalled]
    /\ UNCHANGED <<registryVars, licenses, botPermissions, fanoutVars, now>>

\* ------------------------------- FeatureLoader, calls awaiting their hook
Callers == {"t1", "t2"}    \* the callers that can each hold one awaiting call

\* the instance object a call took from the map before its await
Awaiting(op, guildId, featureKey, hook) ==
    [op |-> op, guildId |-> guildId, featureKey |-> featureKey,
     hook |-> hook, attached |-> TRUE]

\* enableFeature up to `await instance.feature.enable(instance.context)`,
\* lines 338-367: the checks pass and the enable hook is invoked
EnableStart(t, guildId, featureKey, hook) ==
    /\ ~Has(pending, t)
    /\ EnableOutcome(guildId, featureKey, hook).hookCalled
    /\ pending' = Put(pending, t,
                      Awaiting("enableFeature", guildId, featureKey, hook))
    /\ last' = [op |-> "enable", seq |-> 1 - last.seq, caller |-> t,
                guildId |-> guildId, featureKey |-> featureKey]
    /\ UNCHANGED <<registryVars, licenses, instances, botPermissions,
                   inflight, catalogVars, now>>

\* the enable hook settles: line 368 sets enabled on the instance object the
\* call holds, line 386 catches a failure
EnableFinish(t) ==
    /\ Has(pending, t)
    /\ pending[t].op = "enableFeature"
    /\ LET c == pending[t] IN
        /\ instances' = IF c.hook = "ok" /\ c.attached
                        THEN [instances EXCEPT
                                ![c.guildId][c.featureKey].enabled = TRUE]
                        ELSE instances
        /\ last' = [op |-> "enableFeature", seq |-> 1 - last.seq,
                    guildId |-> c.guildId, featureKey |-> c.featureKey,
                    hook |-> c.hook, result |-> c.hook = "ok",
                    error |-> IF c.hook = "ok" THEN ""
                              ELSE "enable hook failed",
                    hookCalled |-> TRUE, attached |-> c.attached]
    /\ pending' = Del(pending, t)
    /\ UNCHANGED <<registryVars, licenses, botPermissions, inflight,
                   catalogVars, now>>

\* disableFeature up to `await instance.feature.disable(instance.context)`,
\* lines 395-407: the record is enabled and the disable hook is invoked
DisableStart(t, guildId, featureKey, hook) ==
    /\ ~Has(pending, t)
    /\ DisableOutcome(guildId, featureKey, hook).hookCalled
    /\ pending' = Put(pending, t,
                      Awaiting("disableFeature", guildId, featureKey, hook))
    /\ last' = [op |-> "disable", seq |-> 1 - last.seq, caller |-> t,
                guildId |-> guildId, featureKey |-> featureKey]
    /\ UNCHANGED <<registryVars, licenses, instances, botPermissions,
                   inflight, catalogVars, now>>

\* the disable hook settles: line 408 clears enabled on the instance object
\* the call holds, line 419 catches a failure
DisableFinish(t) ==
    /\ Has(pending, t)
    /\ pending[t].op = "disableFeature"
    /\ LET c == pending[t] IN
        /\ instances' = IF c.hook = "ok" /\ c.attached
                        THEN [instances EXCEPT
                                ![c.guildId][c.featureKey].enabled = FALSE]
                        ELSE instances
        /\ last' = [op |-> "disableFeature", seq |-> 1 - last.seq,
                    guildId |-> c.guildId, featureKey |-> c.featureKey,
                    hook |-> c.hook, result |-> c.hook = "ok",
                    error |-> IF c.hook = "ok" THEN ""
                              ELSE "disable hook failed",
                    hookCalled |-> TRUE, attached |-> c.attached]
    /\ pending' = Del(pending, t)
    /\ UNCHANGED <<registryVars, licenses, botPermissions, inflight,
                   catalogVars, now>>

\* Object.assign(config, newConfig): the own keys of newConfig are written
\* over config, the other keys of config stay
ObjectAssign(config, newConfig) ==
    [x \in DOMAIN config \cup DOMAIN newConfig |->
        IF x \in DOMAIN newConfig THEN newConfig[x] ELSE config[x]]

\* updateConfig writing through to the feature's defaultConfig object, as if
\* the records had been given that object instead of a copy of it
UpdateConfigShared(guildId, featureKey, newConfig) ==
    /\ Has(instances, guildId)
    /\ Has(instances[guildId], featureKey)
    /\ defaultConfig' = [defaultConfig EXCEPT
                            ![featureKey] = ObjectAssign(@, newConfig)]
    /\ instances' = [g \in DOMAIN instances |->
                        [k \in DOMAIN instances[g] |->
                            IF k = featureKey
                            THEN [instances[g][k] EXCEPT
                                    !.config = ObjectAssign(@, newConfig)]
                            ELSE instances[g][k]]]
    /\ last' = [op |-> "updateConfig", seq |-> 1 - last.seq,
                guildId |-> guildId, featureKey |-> featureKey,
                newConfig |-> newConfig]
    /\ UNCHANGED <<registryVars, licenses, botPermissions, inflight, features,
                   pending, now>>

\* context.updateConfig(newConfig) of the record of (guildId, featureKey),
\* lines 282-285: config is the object made by the spread of line 274, which
\* the record and its context share
UpdateConfig(guildId, featureKey, newConfig) ==
    /\ Has(instances, guildId)
    /\ Has(instances[guildId], featureKey)
    /\ instances' = [instances EXCEPT
                        ![guildId][featureKey].config =
                            ObjectAssign(@, newConfig)]
    /\ last' = [op |-> "updateConfig", seq |-> 1 - last.seq,
                guildId |-> guildId, featureKey |-> featureKey,
                newConfig |-> newConfig]
    /\ UNCHANGED <<registryVars, licenses, botPermissions, fanoutVars, now>>

\* ---------------------------------------------- FeatureLoader, fan-out
\* the events the features declare a handler for
EventHandlers ==
    [welcome |-> {"memberAdd"}, moderation |-> {"messageCreate"},
     xp |-> {"memberAdd", "messageCreate"}]

\* how a feature method called without try ends: its promise resolves, its
\* promise rejects, or the call itself throws before it returns a promise
SettleModes == {"ok", "reject", "throw"}

\* the loops of handleEvent (462-483) and cleanupGuild (533-548) from the j-th
\* record on: the methods of the targets are called in Map order and their
\* promises collected; a call that throws leaves the loop and the method
RECURSIVE LaunchFrom(_, _, _, _)
LaunchFrom(targets, modes, j, invoked) ==
    IF j > Len(Features)
    THEN [invoked |-> invoked, pending |-> invoked, raised |-> FALSE]
    ELSE LET key == Features[j] IN
         IF key \notin targets THEN LaunchFrom(targets, modes, j + 1, invoked)
         ELSE IF modes[key] = "throw"
         THEN [invoked |-> invoked \cup {key}, pending |-> invoked,
               raised |-> TRUE]
         ELSE LaunchFrom(targets, modes, j + 1, invoked \cup {key})

\* handleEvent, lines 463-466: the records whose handler is called
EventTargets(guildId, eventName) ==
    {k \in DOMAIN instances[guildId] :
        instances[guildId][k].enabled /\ eventName \in EventHandlers[k]}

\* cleanupGuild, line 534: the records whose disable hook is called
EnabledFeatures(guildId) ==
    {k \in DOMAIN instances[guildId] : instances[guildId][k].enabled}

\* a call that has started: the methods it called with the context each got,
\* the promises not yet settled, the handlers that ran to completion, the
\* failures logged, and whether it has returned (raised: by throwing)
Call(op, guildId, eventName, modes, r) ==
    [op |-> op, guildId |-> guildId, eventName |-> eventName, modes |-> modes,
     invoked |-> {[feature |-> k, context |-> instances[guildId][k].context] :
                    k \in r.invoked},
     pending |-> r.pending, done |-> {}, logged |-> {},
     returned |-> r.raised, raised |-> r.raised]

Returned(op, guildId, eventName, modes) ==
    [op |-> op, guildId |-> guildId, eventName |-> eventName, modes |-> modes,
     invoked |-> {}, pending |-> {}, done |-> {}, logged |-> {},
     returned |-> TRUE, raised |-> FALSE]

\* handleEvent up to its await
HandleEvent(guildId, eventName, modes) ==
    /\ inflight = NoCall
    /\ IF ~Has(instances, guildId)
       THEN /\ \A k \in DOMAIN modes : modes[k] = "ok"
            /\ inflight' = Returned("handleEvent", guildId, eventName, modes)
       ELSE LET r == LaunchFrom(EventTargets(guildId, eventName), modes, 1, {})
            IN  /\ \A k \in DOMAIN modes : k \in r.invoked \/ modes[k] = "ok"
                /\ inflight' = Call("handleEvent", guildId, eventName, modes, r)
    /\ last' = [op |-> "handleEvent", seq |-> 1 - last.seq,
                guildId |-> guildId, eventName |-> eventName]
    /\ UNCHANGED <<registryVars, licenses, instances, botPermissions,
                   catalogVars, pending, now>>

\* the promise of a called method settles; a rejection is caught and logged
HandlerSettles(k) ==
    /\ inflight # NoCall
    /\ k \in inflight.pending
    /\ inflight' = [inflight EXCEPT
                      !.pending = @ \ {k},
                      !.done = IF inflight.modes[k] = "ok" THEN @ \cup {k} ELSE @,
                      !.logged = IF inflight.modes[k] = "reject"
                                 THEN @ \cup {k} ELSE @]
    /\ UNCHANGED <<registryVars, licenses, instances, botPermissions,
                   catalogVars, pending, now, last>>

\* handleEvent after await Promise.allSettled
EventReturns ==
    /\ inflight.op = "handleEvent"
    /\ ~inflight.returned
    /\ inflight.pending = {}
    /\ inflight' = [inflight EXCEPT !.returned = TRUE]
    /\ UNCHANGED <<registryVars, licenses, instances, botPermissions,
                   catalogVars, pending, now, last>>

\* cleanupGuild up to its await
CleanupStart(guildId, modes) ==
    /\ inflight = NoCall
    /\ IF ~Has(instances, guildId)
       THEN /\ \A k \in DOMAIN modes : modes[k] = "ok"
            /\ inflight' = Returned("cleanupGuild", guildId, "", modes)
       ELSE LET r == LaunchFrom(EnabledFeatures(guildId), modes, 1, {})
            IN  /\ \A k \in DOMAIN modes : k \in r.invoked \/ modes[k] = "ok"
                /\ inflight' = Call("cleanupGuild", guildId, "", modes, r)
    /\ last' = [op |-> "cleanupGuild", seq |-> 1 - last.seq,
                guildId |-> guildId]
    /\ UNCHANGED <<registryVars, licenses, instances, botPermissions,
                   catalogVars, pending, now>>

\* cleanupGuild after await Promise.allSettled: the records are dropped
CleanupFinish ==
    /\ inflight.op = "cleanupGuild"
    /\ ~inflight.returned
    /\ inflight.pending = {}
    /\ instances' = Del(instances, inflight.guildId)
    /\ pending' = Detach(inflight.guildId)
    /\ inflight' = [inflight EXCEPT !.returned = TRUE]
    /\ UNCHANGED <<registryVars, licenses, botPermissions, catalogVars, now,
                   last>>

\* the caller has taken the outcome of the call and nothing of it is running
Release ==
    /\ inflight # NoCall
    /\ inflight.returned
    /\ inflight.pending = {}
    /\ inflight' = NoCall
    /\ UNCHANGED <<registryVars, licenses, instances, botPermissions,
                   catalogVars, pending, now, last>>

\* cleanupGuild run to its end with no other call in between: the disable
\* hook of every enabled feature, then the records of the guild are dropped;
\* a disable call that throws leaves the method before the records are dropped
CleanupGuild(guildId, hooks) ==
    LET known == Has(instances, guildId)
        r == IF known THEN LaunchFrom(EnabledFeatures(guildId), hooks, 1, {})
             ELSE [invoked |-> {}, pending |-> {}, raised |-> FALSE]
    IN  /\ \A k \in DOMAIN hooks : k \in r.invoked \/ hooks[k] = "ok"
        /\ instances' = IF r.raised THEN instances ELSE Del(instances, guildId)
        /\ pending' = IF r.raised THEN pending ELSE Detach(guildId)
        /\ last' = [op |-> "cleanupGuild", seq |-> 1 - last.seq,
                    guildId |-> guildId, hooks |-> hooks,
                    disabled |-> r.invoked, raised |-> r.raised]
        /\ UNCHANGED <<registryVars, licenses, botPermissions, inflight,
                       catalogVars, now>>

\* ------------------------------------------- the SIGINT / SIGTERM handler
Signal == "signal"       \* the signal handler's key in pending

ShuttingDown(phase, current, remaining) ==
    [op |-> "shutdown", phase |-> phase, current |-> current,
     remaining |-> remaining]

\* the handler starts: getStats().guilds is taken once, then the loop begins
\* with its first guild; with no guild the loop is skipped and
\* client.destroy() and process.exit(0) follow at once
SignalReceived ==
    /\ ~Has(pending, Signal)
    /\ inflight = NoCall
    /\ IF DOMAIN instances = {}
       THEN pending' = Put(pending, Signal, ShuttingDown("destroyed", "", {}))
       ELSE \E g \in DOMAIN instances :
               pending' = Put(pending, Signal,
                              ShuttingDown("cleaning", g,
                                           DOMAIN instances \ {g}))
    /\ last' = [op |-> "signal", seq |-> 1 - last.seq]
    /\ UNCHANGED <<registryVars, licenses, instances, botPermissions,
                   inflight, catalogVars, now>>

\* the loop calls cleanupGuild for its current guild
ShutdownCleanup(modes) ==
    /\ Has(pending, Signal)
    /\ pending[Signal].phase = "cleaning"
    /\ CleanupStart(pending[Signal].current, modes)

\* `await featureLoader.cleanupGuild(guildId)` is over.  A cleanupGuild that
\* raised rejects the handler's promise, which nothing catches: the process
\* ends on the unhandled rejection and client.destroy() is never called.
\* Otherwise the loop goes on with the next guild of the list, and after the
\* last one come client.destroy() and process.exit(0)
ShutdownResume ==
    /\ Has(pending, Signal)
    /\ pending[Signal].phase = "cleaning"
    /\ inflight.op = "cleanupGuild"
    /\ inflight.guildId = pending[Signal].current
    /\ inflight.returned
    /\ IF inflight.raised
       THEN /\ pending' = [pending EXCEPT ![Signal].phase = "aborted"]
            /\ UNCHANGED inflight
       ELSE /\ inflight' = NoCall
            /\ IF pending[Signal].remaining = {}
               THEN pending' = [pending EXCEPT
                                   ![Signal] = ShuttingDown("destroyed", "", {})]
               ELSE \E g \in pending[Signal].remaining :
                       pending' = [pending EXCEPT
                                     ![Signal] = ShuttingDown("cleaning", g,
                                         pending[Signal].remaining \ {g})]
    /\ UNCHANGED <<registryVars, licenses, instances, botPermissions,
                   catalogVars, now, last>>

\* ------------------------------------------------------------ FeatureRegistry
Unset == "unset"         \* an optional field that is not given

\* feature definitions offered to the catalog
Definitions ==
    [welcomeFeature |-> [key |-> "welcome", name |-> "Welcome Messages",
                         isPremium |-> "false"],
     welcomeClone |-> [key |-> "welcome", name |-> "Greeter",
                       isPremium |-> "true"],
     moderationFeature |-> [key |-> "moderation", name |-> "Auto Moderation",
                            isPremium |-> "true"],
     unnamedModeration |-> [key |-> "moderation", name |-> "",
                            isPremium |-> "true"],
     xpFeature |-> [key |-> "xp", name |-> "Experience System",
                    isPremium |-> Unset],
     unnamedFeature |-> [key |-> "ai", name |-> "", isPremium |-> Unset],
     keylessFeature |-> [key |-> "", name |-> "Keyless", isPremium |-> "false"]]

\* FeatureConfigSchema.parse: key and name are non-empty, defaults are filled
ConfigIsValid(config) == Len(config.key) >= 1 /\ Len(config.name) >= 1
ParseConfig(config) ==
    [config EXCEPT !.isPremium = IF @ = Unset THEN "false" ELSE @]

RegistryHas(key) == \E j \in 1..Len(features) : features[j].config.key = key
RegistryGet(key) ==
    IF RegistryHas(key)
    THEN features[CHOOSE j \in 1..Len(features) : features[j].config.key = key]
    ELSE NoHandler
RegistryGetAll == features

\* register without the duplicate check: Map.set replaces the stored feature
RegistryRegisterOverwrite(d) ==
    LET config == Definitions[d] IN
    IF ~ConfigIsValid(config)
    THEN [features |-> features, error |-> "invalid definition"]
    ELSE [features |->
            IF RegistryHas(config.key)
            THEN [j \in 1..Len(features) |->
                    IF features[j].config.key = config.key
                    THEN [feature |-> d, config |-> ParseConfig(config)]
                    ELSE features[j]]
            ELSE Append(features, [feature |-> d, config |-> ParseConfig(config)]),
          error |-> ""]

\* register(feature): the catalog afterwards and the error thrown, if any
RegistryRegister(d) ==
    LET config == Definitions[d] IN
    IF RegistryHas(config.key)
    THEN [features |-> features, error |-> "already registered"]
    ELSE IF ~ConfigIsValid(config)
    THEN [features |-> features, error |-> "invalid definition"]
    ELSE [features |-> Append(features,
                              [feature |-> d, config |-> ParseConfig(config)]),
          error |-> ""]

RegisterFeature(d) ==
    LET r == RegistryRegister(d) IN
    /\ features' = r.features
    /\ last' = [op |-> "registerFeature", seq |-> 1 - last.seq,
                definition |-> d, error |-> r.error]
    /\ UNCHANGED <<registryVars, licenses, instances, botPermissions,
                   inflight, defaultConfig, pending, now>>

\* ------------------------------------------------------------- environment
\* the bot's permissions in a guild change, or its member leaves the cache
SetBotPermissions(guildId, permissions) ==
    /\ botPermissions' = [botPermissions EXCEPT ![guildId] = permissions]
    /\ UNCHANGED <<registryVars, licenses, instances, fanoutVars, now, last>>

\* time passes between calls
Tick(d) ==
    /\ now + d <= MaxNow
    /\ now' = now + d
    /\ UNCHANGED <<commands, aliases, cooldowns, enabled, licenses, last, runtimeVars>>

Idle == last.op = "idle"

\* the caller has taken the result of the last call
Observe ==
    /\ ~Idle
    /\ last' = [op |-> "idle", seq |-> last.seq]
    /\ UNCHANGED <<commands, aliases, cooldowns, enabled, licenses, now, runtimeVars>>

Init ==
    /\ commands = EmptyMap
    /\ aliases = EmptyMap
    /\ cooldowns = EmptyMap
    /\ enabled = [h \in Handlers |-> Metadata[h].enabled]
    /\ licenses = EmptyMap
    /\ instances = EmptyMap
    /\ botPermissions = [g \in Guilds \cup EventGuilds |-> {}]
    /\ inflight = NoCall
    /\ features = <<>>
    /\ defaultConfig = [k \in DOMAIN FeatureConfig |-> FeatureConfig[k].defaultConfig]
    /\ pending = EmptyMap
    /\ now = 0
    /\ last = [op |-> "idle", seq |-> 0]

\* -------------------------------------------------------------- the inputs
Members ==
    {NoMember} \cup
    {[present |-> TRUE, permissions |-> ps, roles |-> rs] :
        ps \in SUBSET {"KickMembers"}, rs \in SUBSET {"r1"}}

StringValue(s) == [type |-> "string", v |-> s]
OptionSets ==
    {EmptyMap,
     [n \in {"reason"} |-> StringValue(<<"x">>)],
     [n \in {"reason"} |-> StringValue(<<"x", "y">>)]}

HandlerRuns(elapsed, acks) ==
    [outcome : {"ok", "throw"}, acked : acks, elapsed : elapsed]
QuietRun == [outcome |-> "ok", acked |-> FALSE, elapsed |-> 0]

FullMember ==
    [present |-> TRUE, permissions |-> {"KickMembers"}, roles |-> {"r1"}]

\* where an interaction comes from: a direct message, a guild that is not in
\* the cache (interaction.guild is null, the member is not), or a guild
Contexts ==
    {[guild |-> NoGuild, member |-> NoMember],
     [guild |-> NoGuild, member |-> FullMember]}
    \cup [guild : Guilds, member : Members]

Interactions(names, users, contexts, optionSets, runs, failures) ==
    {[commandName |-> n, user |-> u, guild |-> c.guild, member |-> c.member,
      options |-> o, handler |-> h, replyFails |-> f] :
        n \in names, u \in users, c \in contexts, o \in optionSets,
        h \in runs, f \in failures}

\* the handler's run matters only when it is called, the transport's failure
\* only when an error reply is sent
Relevant(i) ==
    /\ ~TryBlock(i).ran => i.handler = QuietRun
    /\ TryBlock(i).error = "" => ~i.replyFails

Licenses ==
    {[guildId |-> g, type |-> "premium", features |-> {"moderation"},
      issuedAt |-> 0, expiresAt |-> e, revokedAt |-> NoTime] :
        g \in Guilds, e \in {NoTime}}

\* ------------------------------------------------------- the dispatcher spec
DispatchNames == {"info", "admin", "a", "nope"}
DispatchSteps == {1000}

NextDispatch ==
    \/ Idle /\ \E h \in {"infoCommand", "adminCommand"} : Register(h)
    \/ Idle /\ \E n \in {"info", "admin"}, b \in BOOLEAN : SetEnabled(n, b)
    \/ Idle /\ \E l \in Licenses : RegisterLicense(l)
    \/ Idle /\ \E i \in Interactions(DispatchNames, Users, Contexts, OptionSets,
                                   HandlerRuns(DispatchSteps \cup {0}, BOOLEAN), BOOLEAN) :
                  Relevant(i) /\ ExecuteCommand(i)
    \/ Idle /\ \E d \in DispatchSteps : Tick(d)
    \/ Observe

SpecDispatch == Init /\ [][NextDispatch]_vars

\* -------------------------------------------------------- the cooldown spec
CooldownNames == {"ping", "p", "info"}
CooldownSteps == {500}
DirectMessage == {[guild |-> NoGuild, member |-> NoMember]}

NextCooldown ==
    \/ \E h \in {"pingCommand", "infoCommand"} : Register(h)
    \/ \E n \in {"ping"} : Deregister(n)
    \/ \E n \in {"ping"}, u \in Users : ClearCooldown(n, u)
    \/ ClearAllCooldowns
    \/ \E i \in Interactions(CooldownNames, Users, DirectMessage, {EmptyMap},
                             HandlerRuns(CooldownSteps \cup {0}, {FALSE}), {FALSE}) :
            Relevant(i) /\ ExecuteCommand(i)
    \/ \E d \in CooldownSteps : Tick(d)

SpecCooldown == Init /\ [][NextCooldown]_vars

\* --------------------------------------------------------- the runtime spec
HookRuns == {"ok", "throw"}
FeatureKeys == SeqToSet(Features)
BotPermissionSets ==
    {NoMe, {}, {"SendMessages"}, {"KickMembers", "SendMessages"}}
RuntimeSteps == {1000}
RuntimeLicenses ==
    {l \in {[guildId |-> g, type |-> "premium", features |-> fs,
             issuedAt |-> 0, expiresAt |-> e, revokedAt |-> NoTime] :
                g \in Guilds, fs \in {{"moderation"}, {"welcome", "xp"}},
                e \in {NoTime, 500}} :
        l.features = {"moderation"} \/ l.expiresAt = NoTime}

NextRuntime ==
    \/ \E g \in Guilds, hooks \in [FeatureKeys -> HookRuns] :
            InitializeGuildFeatures(g, hooks)
    \/ \E g \in Guilds, k \in FeatureKeys, hook \in HookRuns :
            EnableFeature(g, k, hook)
    \/ \E g \in Guilds, k \in FeatureKeys, hook \in HookRuns :
            DisableFeature(g, k, hook)
    \/ \E g \in Guilds, hooks \in [FeatureKeys -> HookRuns] :
            CleanupGuild(g, hooks)
    \/ \E g \in Guilds, p \in BotPermissionSets : SetBotPermissions(g, p)
    \/ \E l \in RuntimeLicenses : RegisterLicense(l)
    \/ \E g \in Guilds : RevokeLicense(g)
    \/ \E d \in RuntimeSteps : Tick(d)

SpecRuntime == Init /\ [][NextRuntime]_vars

\* ---------------------------------------------------------- the events spec
EventNames == {"memberAdd", "messageCreate"}
AllOk == [k \in FeatureKeys |-> "ok"]
AllPermissions == {"KickMembers", "SendMessages"}

NextEvents ==
    \/ \E g \in EventGuilds : InitializeGuildFeatures(g, AllOk)
    \/ \E g \in Guilds : SetBotPermissions(g, AllPermissions)
    \/ \E g \in EventGuilds, k \in FeatureKeys : EnableFeature(g, k, "ok")
    \/ \E g \in Guilds, k \in FeatureKeys : DisableFeature(g, k, "ok")
    \/ \E g \in EventGuilds, e \in EventNames, modes \in [FeatureKeys -> SettleModes] :
            HandleEvent(g, e, modes)
    \/ \E k \in FeatureKeys : HandlerSettles(k)
    \/ EventReturns
    \/ \E g \in Guilds, modes \in [FeatureKeys -> SettleModes] :
            CleanupStart(g, modes)
    \/ CleanupFinish
    \/ Release

SpecEvents == Init /\ [][NextEvents]_vars

\* ---------------------------------------------------------- the config spec
NewConfigs ==
    {[enabled |-> "false"], [channelId |-> "c1"],
     [enabled |-> "false", logChannelId |-> "c2"]}
ConfigHooks == {[k \in FeatureKeys |-> IF k = t THEN "throw" ELSE "ok"] :
                    t \in {"xp", "none"}}

NextConfig ==
    \/ \E g \in EventGuilds, hooks \in ConfigHooks :
            InitializeGuildFeatures(g, hooks)
    \/ \E g \in EventGuilds : SetBotPermissions(g, AllPermissions)
    \/ \E g \in EventGuilds, k \in {"welcome", "moderation"},
          c \in NewConfigs : UpdateConfig(g, k, c)
    \/ \E g \in EventGuilds : CleanupGuild(g, AllOk)

SpecConfig == Init /\ [][NextConfig]_vars

\* ------------------------------------------------------ the invocation spec
InvokeNames == {"ping", "info"}
InvokeSteps == {500}
InvokeInteractions ==
    Interactions(InvokeNames, Users, DirectMessage, {EmptyMap},
                 {QuietRun}, {FALSE})

NextInvoke ==
    \/ \E h \in {"pingCommand", "infoCommand"} : Register(h)
    \/ \E t \in Callers, i \in InvokeInteractions : ExecuteStart(t, i)
    \/ \E t \in Callers : ExecuteFinish(t)
    \/ \E i \in InvokeInteractions : ~TryBlock(i).ran /\ ExecuteCommand(i)
    \/ \E d \in InvokeSteps : Tick(d)

SpecInvoke == Init /\ [][NextInvoke]_vars

\* --------------------------------------------------------- the overlap spec
OverlapKeys == {"welcome", "xp"}
OverlapModes == {[k \in FeatureKeys |-> "ok"]}

NextOverlap ==
    \/ \E g \in Guilds : InitializeGuildFeatures(g, AllOk)
    \/ \E g \in Guilds : SetBotPermissions(g, AllPermissions)
    \/ \E t \in Callers, g \in Guilds, k \in OverlapKeys, hook \in HookRuns :
            EnableStart(t, g, k, hook)
    \/ \E t \in Callers : EnableFinish(t)
    \/ \E t \in Callers, g \in Guilds, k \in OverlapKeys, hook \in HookRuns :
            DisableStart(t, g, k, hook)
    \/ \E t \in Callers : DisableFinish(t)
    \/ \E g \in Guilds, e \in {"memberAdd"}, modes \in OverlapModes :
            HandleEvent(g, e, modes)
    \/ \E k \in FeatureKeys : HandlerSettles(k)
    \/ EventReturns
    \/ Release
    \/ \E g \in Guilds : CleanupGuild(g, AllOk)

SpecOverlap == Init /\ [][NextOverlap]_vars

\* -------------------------------------------------------- the shutdown spec
\* events reach their listeners before the signal and, afterwards, while the
\* signal handler waits for a disable hook that has not settled
ListenersRun ==
    IF ~Has(pending, Signal) THEN TRUE
    ELSE /\ pending[Signal].phase = "cleaning"
         /\ inflight # NoCall
         /\ ~inflight.returned
         /\ inflight.pending # {}
ShutdownModes ==
    {m \in [FeatureKeys -> SettleModes] : m["moderation"] = "ok"}

NextShutdown ==
    \/ ListenersRun /\ \E g \in EventGuilds : InitializeGuildFeatures(g, AllOk)
    \/ ListenersRun /\ \E g \in Guilds : SetBotPermissions(g, AllPermissions)
    \/ ListenersRun /\ \E g \in EventGuilds, k \in OverlapKeys :
                            EnableFeature(g, k, "ok")
    \/ SignalReceived
    \/ \E modes \in ShutdownModes : ShutdownCleanup(modes)
    \/ \E k \in FeatureKeys : HandlerSettles(k)
    \/ CleanupFinish
    \/ ShutdownResume

SpecShutdown == Init /\ [][NextShutdown]_vars

\* -------------------------------------------------------- the registry spec
RegistryHandlers ==
    {"pingCommand", "pingV2Command", "pongCommand", "longCommand",
     "blankCommand"}
RegistryNames == {"ping", "pong", "p"}

NextRegistry ==
    \/ \E h \in RegistryHandlers : Register(h)
    \/ \E n \in RegistryNames : Deregister(n)
    \/ \E n \in RegistryNames, b \in BOOLEAN : SetEnabled(n, b)
    \/ \E i \in Interactions(RegistryNames, {"u1"}, DirectMessage, {EmptyMap},
                             {QuietRun}, {FALSE}) : ExecuteCommand(i)
    \/ ClearAllCooldowns

SpecRegistry == Init /\ [][NextRegistry]_vars

\* --------------------------------------------------------- the catalog spec
NextCatalog == \E d \in DOMAIN Definitions : RegisterFeature(d)

SpecCatalog == Init /\ [][NextCatalog]_vars

\* --------------------------------------------------------- the license spec
LicenseSteps == {500}
LicenseKeys == {"moderation", "xp"}
LicenseInputs ==
    [guildId : Guilds, type : {"premium"}, features : {{"moderation"}},
     issuedAt : {0}, expiresAt : {NoTime, 500}, revokedAt : {NoTime, 0}]
LicenseInteractions ==
    Interactions({"admin", "info"}, {"u1"},
                 {[guild |-> "g1", member |-> FullMember]},
                 {[n \in {"reason"} |-> StringValue(<<"x", "y">>)]},
                 {QuietRun}, {FALSE})

NextLicense ==
    \/ \E l \in LicenseInputs : RegisterLicense(l)
    \/ \E g \in Guilds : RevokeLicense(g)
    \/ \E g \in Guilds, k \in LicenseKeys : ValidateFeatureAccessCall(g, k)
    \/ CleanupExpiredLicenses
    \/ \E g \in Guilds : SetBotPermissions(g, AllPermissions)
    \/ \E g \in Guilds : InitializeGuildFeatures(g, AllOk)
    \/ \E g \in Guilds, k \in LicenseKeys, hook \in HookRuns :
            EnableFeature(g, k, hook)
    \/ \E h \in {"infoCommand", "adminCommand"} : Register(h)
    \/ \E i \in LicenseInteractions : ExecuteCommand(i)
    \/ \E d \in LicenseSteps : Tick(d)

SpecLicense == Init /\ [][NextLicense]_vars

\* ---------------------------------------------------------- the parser spec
IntegerValue(n) == [type |-> "integer", v |-> n]

StringArguments ==
    [name : {"s"}, type : {"string"}, required : BOOLEAN,
     minLength : {NoBound, 0, 2}, maxLength : {NoBound, 0, 2},
     minValue : {NoBound}, maxValue : {NoBound},
     choices : {<<>>, <<Choice(<<"A", "B">>, <<"a", "b">>)>>}]
IntegerArguments ==
    [name : {"n"}, type : {"integer"}, required : BOOLEAN,
     minLength : {NoBound}, maxLength : {NoBound},
     minValue : {NoBound, 0}, maxValue : {NoBound, 1},
     choices : {<<>>, <<Choice(<<"1">>, 1)>>}]
\* an option of another type under the name of a string argument: getString
\* throws on it and its value is never read
OtherTypeValue == [type |-> "boolean", v |-> <<>>]

\* the options of an invocation: each of s and n absent or supplied
SuppliedStrings ==
    {StringValue(<<>>), StringValue(<<"a">>), StringValue(<<"a", "b">>),
     StringValue(<<"a", "b", "c">>), OtherTypeValue}
SuppliedIntegers == {IntegerValue(n) : n \in {0 - 1, 0, 1, 2}}
ParserOptions ==
    {EmptyMap}
    \cup {[x \in {"s"} |-> v] : v \in SuppliedStrings}
    \cup {[x \in {"n"} |-> w] : w \in SuppliedIntegers}
    \cup {[x \in {"s", "n"} |-> IF x = "s" THEN v ELSE w] :
            v \in SuppliedStrings, w \in SuppliedIntegers}

Invocation(o, d) ==
    last = [op |-> "invocation", seq |-> 0, options |-> o, argDefs |-> d]

\* the caller holds an invocation and a list of at most two definitions
InitParser ==
    /\ commands = EmptyMap
    /\ aliases = EmptyMap
    /\ cooldowns = EmptyMap
    /\ enabled = [h \in Handlers |-> Metadata[h].enabled]
    /\ licenses = EmptyMap
    /\ instances = EmptyMap
    /\ botPermissions = [g \in Guilds \cup EventGuilds |-> {}]
    /\ inflight = NoCall
    /\ features = <<>>
    /\ defaultConfig = [k \in DOMAIN FeatureConfig |-> FeatureConfig[k].defaultConfig]
    /\ pending = EmptyMap
    /\ now = 0
    /\ \E o \in ParserOptions :
            \/ Invocation(o, <<>>)
            \/ \E a \in StringArguments : Invocation(o, <<a>>)
            \/ \E b \in IntegerArguments : Invocation(o, <<b>>)
            \/ \E a \in StringArguments, b \in IntegerArguments :
                    Invocation(o, <<a, b>>) \/ Invocation(o, <<b, a>>)

NextParser == ParseArgumentsCall

SpecParser == InitParser /\ [][NextParser]_vars

\* ---------------------------------------------------- the autocomplete spec
MaxCandidates == 27

\* candidate lists of a few lengths around the limit, repeating a pattern
CandidatePool ==
    {Choice(<<"A", "b">>, <<"b">>), Choice(<<"b">>, <<"a", "A">>),
     Choice(<<"b">>, <<"B">>)}
Patterns ==
    {<<c>> : c \in CandidatePool} \cup {<<c, d>> : c, d \in CandidatePool}
Lengths ==
    {0, 2, MaxSuggestions - 1, MaxSuggestions, MaxSuggestions + 1, MaxCandidates}
CandidateLists ==
    {[j \in 1..n |-> p[((j - 1) % Len(p)) + 1]] : n \in Lengths, p \in Patterns}

Sources ==
    {[mode |-> m, options |-> o] : m \in {"static", "custom"}, o \in CandidateLists}
    \cup {[mode |-> m, options |-> <<>>] : m \in {"reject", "throw"}}

FocusedOptions ==
    [name : {"query", "plain", "other"},
     value : {<<>>, <<"a">>, <<"a", "B">>, <<"B", "b">>}]

\* an AutocompleteInteraction in a direct message; only the owner u1 may use
\* the search command
AutocompleteInteractions ==
    {[commandName |-> c.name, user |-> c.user, guild |-> NoGuild,
      member |-> NoMember, focused |-> f, source |-> src, respondFails |-> rf] :
        c \in {[name |-> "search", user |-> "u1"],
                [name |-> "search", user |-> "u2"],
                [name |-> "nope", user |-> "u1"]},
        f \in FocusedOptions, src \in Sources, rf \in BOOLEAN}

\* the commands are registered at startup; an autocomplete interaction
\* arrives
InitAutocomplete ==
    /\ commands = [n \in {"search"} |-> "searchCommand"]
    /\ aliases = EmptyMap
    /\ cooldowns = EmptyMap
    /\ enabled = [h \in Handlers |-> Metadata[h].enabled]
    /\ licenses = EmptyMap
    /\ instances = EmptyMap
    /\ botPermissions = [g \in Guilds \cup EventGuilds |-> {}]
    /\ inflight = NoCall
    /\ features = <<>>
    /\ defaultConfig = [k \in DOMAIN FeatureConfig |-> FeatureConfig[k].defaultConfig]
    /\ pending = EmptyMap
    /\ now = 0
    /\ \E i \in AutocompleteInteractions :
            last = [op |-> "autocomplete", seq |-> 0, inv |-> i]

NextAutocomplete ==
    \/ ParserHandleAutocomplete
    \/ ExecutorHandleAutocomplete

SpecAutocomplete == InitAutocomplete /\ [][NextAutocomplete]_vars

Next ==
    \/ NextDispatch \/ NextCooldown \/ NextRuntime \/ NextEvents
    \/ NextCatalog \/ NextRegistry \/ NextLicense \/ NextParser
    \/ NextAutocomplete \/ NextConfig \/ NextOverlap
    \/ NextInvoke \/ NextShutdown
Spec == Init /\ [][Next]_vars

\* ===================================================================== claims
Exec == last.op = "executeCommand"
\* this step is a call of executeCommand
ExecCalled == last'.op = "executeCommand" /\ last'.seq # last.seq

UnknownMessage == "Unknown command"
DisabledMessage == "Command is currently disabled"
CooldownMessage == "Command is on cooldown"
PermissionMessage == "You don't have permission to use this command."
PremiumMessage == "This command requires a premium subscription."
HandlerMessage == "handler error"

\* the name resolves to no registered command, directly or through an alias
Unresolved(name) ==
    /\ name \notin DOMAIN commands
    /\ name \in DOMAIN aliases => aliases[name] \notin DOMAIN commands

\* a cooldown record for (name, user) that has not expired
LiveCooldown(name, user) ==
    /\ name \in DOMAIN cooldowns
    /\ user \in DOMAIN cooldowns[name]
    /\ cooldowns[name][user] > now

PermissionDenied(i, md) ==
    \/ md.ownerOnly /\ i.user \notin OwnerIds
    \/ md.guildOnly /\ i.guild = NoGuild
    \/ \E p \in SeqToSet(md.permissions) :
            ~i.member.present \/ p \notin i.member.permissions
    \/ \E r \in SeqToSet(md.roles) :
            ~i.member.present \/ r \notin i.member.roles

\* the checks of the pipeline that fail for interaction i in this state,
\* numbered in the order of the pipeline
FailedChecks(i) ==
    IF Unresolved(i.commandName) THEN {1}
    ELSE LET h == Get(i.commandName)
             md == Metadata[h]
         IN  {c \in 2..6 :
                \/ c = 2 /\ ~enabled[h]
                \/ c = 3 /\ LiveCooldown(i.commandName, i.user)
                \/ c = 4 /\ PermissionDenied(i, md)
                \/ c = 5 /\ md.premiumOnly /\ ~HasPremiumAccess(i.guild)
                \/ c = 6 /\ ~ParseArguments(i.options, md.arguments).ok}

CheckOf(message) ==
    CASE message = UnknownMessage -> 1
      [] message = DisabledMessage -> 2
      [] message = CooldownMessage -> 3
      [] message = PermissionMessage -> 4
      [] message = PremiumMessage -> 5
      [] message = HandlerMessage -> 7
      [] message = "" -> 8
      [] OTHER -> 6

\* C2: when several checks of the pipeline fail for an invocation, the error
\* reported is that of the earliest check in the order unknown, disabled,
\* cooldown, permission, premium, arguments, and the handler is not executed.
C2_FirstFailureWins ==
    [][ExecCalled /\ FailedChecks(last'.inv) # {}
        => /\ \A c \in FailedChecks(last'.inv) : CheckOf(last'.error) <= c
           /\ CheckOf(last'.error) \in FailedChecks(last'.inv)
           /\ ~last'.ran
           /\ ~last'.success]_vars

C2_Witness ==
    /\ Exec
    /\ last.error = CooldownMessage
    /\ {3, 4, 5, 6} \subseteq FailedChecks(last.inv)

\* C3: the handler is executed only if the command resolves and is enabled,
\* no live cooldown exists for (command, invoker), the owner-only, guild-only,
\* permission and role requirements are met, the tenant has premium access
\* when the command is premium-only, and the arguments parsed.
C3_HandlerOnlyWhenAllowed ==
    [][ExecCalled /\ last'.ran
        => LET i == last'.inv
               h == Get(i.commandName)
           IN  /\ ~Unresolved(i.commandName)
               /\ enabled[h]
               /\ ~LiveCooldown(i.commandName, i.user)
               /\ Metadata[h].ownerOnly => i.user \in OwnerIds
               /\ Metadata[h].guildOnly => i.guild # NoGuild
               /\ \A p \in SeqToSet(Metadata[h].permissions) :
                      i.member.present /\ p \in i.member.permissions
               /\ \A r \in SeqToSet(Metadata[h].roles) :
                      i.member.present /\ r \in i.member.roles
               /\ Metadata[h].premiumOnly => HasPremiumAccess(i.guild)
               /\ ParseArguments(i.options, Metadata[h].arguments).ok]_vars

C3_Witness ==
    /\ Exec
    /\ last.ran
    /\ last.handler = "adminCommand"
    /\ last.inv.commandName = "a"

\* C4: a cooldown record is written only by an invocation whose handler
\* completed and whose command has a cooldown above 0, and then only the
\* record of (command, invoker); a failed invocation and a command with
\* cooldown 0 leave the cooldown table unchanged.
C4_CooldownWrittenOnlyOnSuccess ==
    [][ExecCalled
        => LET i == last'.inv
               d == IF last'.handler = NoHandler THEN 0
                    ELSE Metadata[last'.handler].cooldown
           IN  /\ (~last'.success \/ d = 0) => cooldowns' = cooldowns
               /\ (last'.success /\ d > 0) =>
                    /\ cooldowns'[i.commandName][i.user] = last'.at + d * MsPerSecond
                    /\ \A n \in DOMAIN cooldowns : \A u \in DOMAIN cooldowns[n] :
                          <<n, u>> # <<i.commandName, i.user>>
                          => /\ n \in DOMAIN cooldowns'
                             /\ u \in DOMAIN cooldowns'[n]
                             /\ cooldowns'[n][u] = cooldowns[n][u]
                    /\ \A n \in DOMAIN cooldowns' : \A u \in DOMAIN cooldowns'[n] :
                          <<n, u>> # <<i.commandName, i.user>>
                          => n \in DOMAIN cooldowns /\ u \in DOMAIN cooldowns[n]]_vars

C4_Witness ==
    /\ Exec
    /\ last.success
    /\ Metadata[last.handler].cooldown > 0
    /\ last.inv.handler.elapsed > 0
    /\ cooldowns[last.inv.commandName][last.inv.user] = last.at + MsPerSecond

\* the interaction was replied to or deferred when the catch block ran
Acked == last.ran /\ last.inv.handler.acked

\* C5 as stated: whenever the pipeline fails, the error reply is delivered to
\* the invoker, as reply when the interaction was not yet replied to or
\* deferred and as editReply otherwise.
C5_ErrorReplyDelivered ==
    (Exec /\ ~last.success)
        => /\ last.delivered
           /\ last.replyMode = IF Acked THEN "editReply" ELSE "reply"

\* C5 amended: whenever the pipeline fails, exactly one error reply is
\* attempted, as reply when the interaction was not yet replied to or deferred
\* and as editReply otherwise, and it is delivered unless that transport call
\* fails; a successful invocation sends no reply of the dispatcher.
C5_ErrorReplyAttempted ==
    Exec => /\ ~last.success =>
                /\ last.replyMode = IF Acked THEN "editReply" ELSE "reply"
                /\ last.delivered <=> ~last.inv.replyFails
            /\ last.success => last.replyMode = "none" /\ ~last.delivered

C5_Witness ==
    /\ Exec
    /\ ~last.success
    /\ last.replyMode = "editReply"
    /\ last.delivered

\* C6: executeCommand never throws to its caller; it returns success = false
\* with the error message on every failure, also when the error reply fails,
\* and success = true exactly when the handler ran and did not throw.
C6_NeverPropagates ==
    Exec => /\ ~last.threw
            /\ last.success <=> (last.ran /\ last.inv.handler.outcome = "ok")
            /\ last.success <=> last.error = ""

C6_Witness ==
    /\ Exec
    /\ last.inv.replyFails
    /\ ~last.success
    /\ last.error = HandlerMessage

\* C7: a command name that resolves to no command or alias fails with the
\* unknown-command error, runs no handler, leaves the cooldown table
\* unchanged and sends exactly one reply.
C7_UnknownCommand ==
    [][ExecCalled /\ Unresolved(last'.inv.commandName)
        => /\ last'.error = UnknownMessage
           /\ ~last'.success
           /\ ~last'.ran
           /\ cooldowns' = cooldowns
           /\ last'.replyMode = "reply"
           /\ last'.replies = 1]_vars

C7_Witness ==
    /\ Exec
    /\ last.inv.commandName = "nope"
    /\ last.error = UnknownMessage
    /\ last.replies = 1
    /\ last.delivered
    /\ commands # EmptyMap

EnableCalled == last'.op = "enableFeature" /\ last'.seq # last.seq
InitializeCalled == last'.op = "initializeGuildFeatures" /\ last'.seq # last.seq

\* a runtime record of (g, k) exists and is not enabled
NotYetEnabled(g, k) ==
    /\ g \in DOMAIN instances
    /\ k \in DOMAIN instances[g]
    /\ ~instances[g][k].enabled

\* C8 as stated: for a premium capability with a record that is not yet
\* enabled, enableFeature succeeds and leaves it enabled if and only if
\* validateFeatureAccess is granted at call time; on denial the record stays
\* not enabled and the enable hook is not invoked.
C8_EnableIffGranted ==
    [][(/\ EnableCalled
        /\ FeatureConfig[last'.featureKey].isPremium
        /\ NotYetEnabled(last'.guildId, last'.featureKey))
        => LET g == last'.guildId
               k == last'.featureKey
               granted == ValidateFeatureAccess(g, k).valid
           IN  /\ (last'.result /\ instances'[g][k].enabled) <=> granted
               /\ ~granted => ~instances'[g][k].enabled /\ ~last'.hookCalled]_vars

\* C8 amended: ... if and only if validateFeatureAccess is granted at call
\* time and the enable hook completes without throwing; on denial the record
\* stays not enabled and the enable hook is not invoked.
C8_EnableIffGrantedAndHookCompletes ==
    [][(/\ EnableCalled
        /\ FeatureConfig[last'.featureKey].isPremium
        /\ NotYetEnabled(last'.guildId, last'.featureKey))
        => LET g == last'.guildId
               k == last'.featureKey
               granted == ValidateFeatureAccess(g, k).valid
           IN  /\ last'.result <=> (granted /\ last'.hook = "ok")
               /\ instances'[g][k].enabled <=> last'.result
               /\ last'.hookCalled <=> granted
               /\ ~granted => ~instances'[g][k].enabled /\ ~last'.hookCalled]_vars

C8_Witness ==
    /\ last.op = "enableFeature"
    /\ last.featureKey = "moderation"
    /\ last.result
    /\ last.hookCalled
    /\ instances[last.guildId]["moderation"].enabled
    /\ licenses[last.guildId].expiresAt = 500

\* C9 as stated: for every (tenant, capability), the second of two
\* enableFeature calls in a row is a no-op success that leaves the state of
\* the first call, and the enable hook is invoked at most once across the two.
C9_EnableTwice ==
    [][(/\ last.op = "enableFeature"
        /\ EnableCalled
        /\ last'.guildId = last.guildId
        /\ last'.featureKey = last.featureKey)
        => /\ last'.result
           /\ ~last'.hookCalled
           /\ instances' = instances
           /\ ~(last.hookCalled /\ last'.hookCalled)]_vars

\* C9 amended: when an enableFeature call succeeds, calling it again in a row
\* for the same (tenant, capability) is a no-op success that leaves the state
\* of the first call, and the enable hook is invoked at most once across the
\* two calls.
C9_EnableTwiceAfterSuccess ==
    [][(/\ last.op = "enableFeature"
        /\ last.result
        /\ EnableCalled
        /\ last'.guildId = last.guildId
        /\ last'.featureKey = last.featureKey)
        => /\ last'.result
           /\ ~last'.hookCalled
           /\ instances' = instances
           /\ ~(last.hookCalled /\ last'.hookCalled)]_vars

C9_Witness ==
    /\ last.op = "enableFeature"
    /\ last.result
    /\ ~last.hookCalled
    /\ instances[last.guildId][last.featureKey].enabled

\* the permissions the bot holds in guild g
Held(g) == IF botPermissions[g] = NoMe THEN {} ELSE botPermissions[g]

\* C10 as stated: after initializeGuildFeatures(T), a record of (T, C) exists,
\* not enabled, if and only if the bot's permissions in T include every
\* permission C requires.
C10_RegisteredIffPermitted ==
    [][InitializeCalled
        => LET g == last'.guildId IN
           /\ g \in DOMAIN instances'
           /\ \A k \in FeatureKeys :
                (k \in DOMAIN instances'[g] /\ ~instances'[g][k].enabled)
                <=> SeqToSet(FeatureConfig[k].permissions) \subseteq Held(g)]_vars

\* C10 amended: ... if and only if the bot's member is known in T, its
\* permissions include every permission C requires, and C's register hook
\* completed without throwing.
C10_RegisteredIffPermittedAndHookCompletes ==
    [][InitializeCalled
        => LET g == last'.guildId IN
           /\ g \in DOMAIN instances'
           /\ \A k \in FeatureKeys :
                /\ k \in DOMAIN instances'[g] <=>
                      /\ botPermissions[g] # NoMe
                      /\ SeqToSet(FeatureConfig[k].permissions) \subseteq Held(g)
                      /\ last'.hooks[k] = "ok"
                /\ k \in DOMAIN instances'[g] => ~instances'[g][k].enabled]_vars

C10_Witness ==
    /\ last.op = "initializeGuildFeatures"
    /\ botPermissions[last.guildId] = {"SendMessages"}
    /\ DOMAIN instances[last.guildId] = {"welcome"}
    /\ last.hooks["xp"] = "throw"
    /\ last.registered = {"welcome", "xp"}

\* this step is a call of handleEvent
HandleEventCalled == inflight = NoCall /\ inflight'.op = "handleEvent"

\* the features of guild g that are enabled and declare a handler for e
Subscribers(g, e) ==
    IF g \notin DOMAIN instances THEN {}
    ELSE {k \in FeatureKeys : /\ k \in DOMAIN instances[g]
                              /\ instances[g][k].enabled
                              /\ e \in EventHandlers[k]}

\* C11: whatever way a handler fails, handleEvent does not raise to its
\* caller and the handler of every enabled feature that declares one for the
\* event is still invoked.
C11_DispatchIsolation ==
    [][HandleEventCalled
        => /\ ~inflight'.raised
           /\ \A k \in Subscribers(inflight'.guildId, inflight'.eventName) :
                \E c \in inflight'.invoked : c.feature = k]_vars

\* C12: handleEvent(T, e) invokes the handler of C, with T's context, if and
\* only if C has a record for T that is enabled and C declares a handler for e.
C12_InvokedIffEnabledAndDeclared ==
    [][HandleEventCalled
        => \A k \in FeatureKeys, t \in EventGuilds :
             [feature |-> k, context |-> t] \in inflight'.invoked
             <=> /\ t = inflight'.guildId
                 /\ k \in Subscribers(t, inflight'.eventName)]_vars

\* C13: the caller of handleEvent observes its completion only after every
\* handler it launched has settled.
C13_WaitForAllSettled ==
    (inflight.op = "handleEvent" /\ inflight.returned) => inflight.pending = {}

\* this step is a call of cleanupGuild / the step in which it returns
CleanupCalled == inflight = NoCall /\ inflight'.op = "cleanupGuild"
CleanupReturns ==
    /\ inflight'.op = "cleanupGuild"
    /\ inflight'.returned
    /\ inflight = NoCall \/ ~inflight.returned

\* C14: cleanupGuild(T) invokes the disable hook of every feature enabled for
\* T, whatever way one of them fails, and returns only after all of them have
\* settled, with T's records deleted.
C14_CleanupDisablesAllThenForgets ==
    [][/\ CleanupCalled
          => \A k \in FeatureKeys :
                (/\ inflight'.guildId \in DOMAIN instances
                 /\ k \in DOMAIN instances[inflight'.guildId]
                 /\ instances[inflight'.guildId][k].enabled)
                => \E c \in inflight'.invoked : c.feature = k
       /\ CleanupReturns
          => /\ inflight'.pending = {}
             /\ inflight'.guildId \notin DOMAIN instances']_vars

\* this step is a call of disableFeature
DisableCalled == last'.op = "disableFeature" /\ last'.seq # last.seq

\* a record of (g, k) exists and is enabled
IsEnabled(g, k) ==
    /\ g \in DOMAIN instances
    /\ k \in DOMAIN instances[g]
    /\ instances[g][k].enabled

\* C15: disableFeature(T, key) on a capability that is already disabled or
\* absent, also when T has no records at all, reports success, invokes no
\* disable hook and changes no state.
C15_DisableNoOpSuccess ==
    [][(DisableCalled /\ ~IsEnabled(last'.guildId, last'.featureKey))
        => /\ last'.result
           /\ ~last'.hookCalled
           /\ instances' = instances]_vars

\* C16: enableFeature(T, key) fails as not found when T has no records or no
\* record for key; no enable hook is invoked and no record is created or
\* changed.
C16_EnableNotFound ==
    [][EnableCalled
        => LET g == last'.guildId
               k == last'.featureKey
           IN  /\ g \notin DOMAIN instances
                  => /\ ~last'.result
                     /\ last'.error = "Guild not found"
                     /\ ~last'.hookCalled
                     /\ instances' = instances
               /\ (g \in DOMAIN instances /\ k \notin DOMAIN instances[g])
                  => /\ ~last'.result
                     /\ last'.error = "Feature not found for guild"
                     /\ ~last'.hookCalled
                     /\ instances' = instances]_vars

C16_Witness ==
    /\ last.op = "enableFeature"
    /\ last.error = "Feature not found for guild"
    /\ last.featureKey = "welcome"
    /\ DOMAIN instances[last.guildId] = {"xp"}
    /\ ~last.result

\* C17: enableFeature never turns a record to enabled while the bot lacks one
\* of the capability's required permissions in that guild.
C17_EnableNeedsPermissions ==
    [][(/\ EnableCalled
        /\ NotYetEnabled(last'.guildId, last'.featureKey)
        /\ instances'[last'.guildId][last'.featureKey].enabled)
        => SeqToSet(FeatureConfig[last'.featureKey].permissions)
             \subseteq Held(last'.guildId)]_vars

\* this step is a call of FeatureRegistry.register
RegisterFeatureCalled == last'.op = "registerFeature" /\ last'.seq # last.seq

\* C18: FeatureRegistry.register fails with the duplicate-key error when the
\* key is already registered and fails when the key or the name is empty,
\* with the invalid-definition error unless the key is a duplicate; a failing
\* call leaves the catalog as it was, and a stored definition is never
\* replaced.
C18_CatalogRegister ==
    [][RegisterFeatureCalled
        => LET config == Definitions[last'.definition]
               duplicate == \E j \in 1..Len(features) :
                                features[j].config.key = config.key
               empty == config.key = "" \/ config.name = ""
           IN  /\ duplicate => last'.error = "already registered"
               /\ (empty /\ ~duplicate) => last'.error = "invalid definition"
               /\ (~empty /\ ~duplicate) => last'.error = ""
               /\ last'.error # "" => features' = features
               /\ last'.error = ""
                  => features' = Append(features,
                        [feature |-> last'.definition,
                         config |-> ParseConfig(config)])
               /\ \A j \in 1..Len(features) :
                    /\ j <= Len(features')
                    /\ features'[j] = features[j]]_vars

C18_Witness ==
    /\ last.op = "registerFeature"
    /\ last.definition = "welcomeClone"
    /\ last.error = "already registered"
    /\ Len(features) = 2
    /\ features[2].feature = "welcomeFeature"

\* this step is a call of CommandRegistry.register / deregister
RegisterCalled == last'.op = "register" /\ last'.seq # last.seq
DeregisterCalled == last'.op = "deregister" /\ last'.seq # last.seq

\* what get(name) returns after the step
GetAfter(name) ==
    IF name \in DOMAIN commands' THEN commands'[name]
    ELSE IF name \in DOMAIN aliases' /\ aliases'[name] \in DOMAIN commands'
         THEN commands'[aliases'[name]]
    ELSE NoHandler

\* C19: register is last-writer-wins on the name and first-writer-wins on the
\* aliases: after a valid registration get(name) returns the new definition,
\* a declared alias that is already indexed is skipped and keeps its target,
\* the other declared aliases resolve to the name; invalid metadata is
\* rejected and leaves commands and aliases unchanged.
C19_RegisterWinners ==
    [][RegisterCalled
        => LET h == last'.handler
               md == Metadata[h]
               valid == /\ Len(md.name) \in 1..32
                        /\ Len(md.description) \in 1..100
                        /\ md.cooldown >= 0
               declared == {md.aliases[j] : j \in 1..Len(md.aliases)}
           IN  /\ last'.result <=> valid
               /\ ~valid => commands' = commands /\ aliases' = aliases
               /\ valid
                  => /\ GetAfter(md.name) = h
                     /\ DOMAIN commands' = DOMAIN commands \cup {md.name}
                     /\ \A n \in DOMAIN commands \ {md.name} :
                            commands'[n] = commands[n]
                     /\ DOMAIN aliases' = DOMAIN aliases \cup declared
                     /\ \A a \in DOMAIN aliases : aliases'[a] = aliases[a]
                     /\ \A a \in declared \ DOMAIN aliases :
                            aliases'[a] = md.name]_vars

\* pong was registered after ping: its alias p was skipped and still
\* resolves to ping, its alias po resolves to pong
C19_Witness ==
    /\ last.op = "register"
    /\ last.handler = "pongCommand"
    /\ last.result
    /\ Get("p") = "pingV2Command"
    /\ aliases["p"] = "ping"
    /\ Get("po") = "pongCommand"

\* C20: deregister(name) returns true exactly when a command is registered
\* under name; afterwards get(name) and get(a) for every alias a of the
\* command return nothing and no cooldown record of the command remains,
\* under its name or under an alias that resolved to it.
C20_DeregisterForgets ==
    [][DeregisterCalled
        => LET name == last'.name
               own == IF name \in DOMAIN commands
                      THEN {a \in DOMAIN aliases : aliases[a] = name}
                           \cup SeqToSet(Metadata[commands[name]].aliases)
                      ELSE {}
           IN  /\ last'.result <=> name \in DOMAIN commands
               /\ ~last'.result
                  => /\ commands' = commands /\ aliases' = aliases
                     /\ cooldowns' = cooldowns
               /\ last'.result
                  => /\ GetAfter(name) = NoHandler
                     /\ \A a \in own : GetAfter(a) = NoHandler
                     /\ \A n \in {name} \cup own : n \notin DOMAIN cooldowns']_vars

\* this step is a call of setEnabled
SetEnabledCalled == last'.op = "setEnabled" /\ last'.seq # last.seq

\* C21: setEnabled(name, value) returns true exactly when name is a
\* registered name; it changes nothing but the enabled flag of that command
\* (commands, aliases and cooldown records stay as they are, and setEnabled
\* on an unregistered name changes nothing at all); setEnabled(name, true)
\* puts the flag back; an invocation that resolves to a disabled command
\* fails with the command-disabled error, runs no handler and writes no
\* cooldown, and an invocation of an enabled command never fails with it.
C21_SetEnabledKeepsRegistration ==
    [][/\ SetEnabledCalled
          => LET name == last'.name IN
             /\ last'.result <=> name \in DOMAIN commands
             /\ commands' = commands /\ aliases' = aliases
             /\ cooldowns' = cooldowns
             /\ GetAfter(name) = Get(name)
             /\ ~last'.result => enabled' = enabled
             /\ last'.result
                => /\ enabled'[commands[name]] = last'.value
                   /\ \A h \in Handlers \ {commands[name]} :
                          enabled'[h] = enabled[h]
       /\ ExecCalled /\ Get(last'.inv.commandName) # NoHandler
          => LET h == Get(last'.inv.commandName) IN
             /\ ~enabled[h]
                => /\ last'.error = DisabledMessage
                   /\ ~last'.ran
                   /\ cooldowns' = cooldowns
             /\ enabled[h] => last'.error # DisabledMessage]_vars

\* ping ran once and left a cooldown record, was disabled, and has just been
\* enabled again with its command, alias and cooldown record in place
C21_Witness ==
    /\ last.op = "setEnabled"
    /\ last.name = "ping"
    /\ last.value /\ ~last.was /\ last.result
    /\ Get("p") = "pingCommand"
    /\ Has(cooldowns, "ping")
    /\ enabled["pingCommand"]

\* this step is a call of registerLicense
RegisterLicenseCalled == last'.op = "registerLicense" /\ last'.seq # last.seq

\* C22: registerLicense fails when the expiry of the given record is in the
\* past or its revocation time is set; a failed call leaves every stored
\* record as it was; a successful call stores the given record as the one
\* record of its tenant and leaves the other tenants' records alone.
C22_RegisterLicense ==
    [][RegisterLicenseCalled
        => LET license == last'.license
               g == license.guildId
           IN  /\ (license.expiresAt # NoTime /\ license.expiresAt < now)
                  => ~last'.result
               /\ license.revokedAt # NoTime => ~last'.result
               /\ ~last'.result => licenses' = licenses
               /\ last'.result
                  => /\ DOMAIN licenses' = DOMAIN licenses \cup {g}
                     /\ licenses'[g] = license
                     /\ \A o \in DOMAIN licenses \ {g} :
                            licenses'[o] = licenses[o]]_vars

\* a record whose expiry has passed was refused while the tenant held
\* another record, which is still the stored one
C22_Witness ==
    /\ last.op = "registerLicense"
    /\ ~last.result
    /\ last.license.expiresAt # NoTime
    /\ last.license.expiresAt < now
    /\ last.license.revokedAt = NoTime
    /\ Has(licenses, last.license.guildId)
    /\ licenses[last.license.guildId] # last.license

NoLicenseReason == "No license found for this guild"
ExpiredReason == "License has expired"
RevokedReason == "License has been revoked"
NotIncludedReason == "Feature is not included in this license"

\* the tenant's record, if any, has an expiry that has passed / is revoked
Expired(g) ==
    /\ g \in DOMAIN licenses
    /\ licenses[g].expiresAt # NoTime
    /\ licenses[g].expiresAt < now
Revoked(g) == g \in DOMAIN licenses /\ licenses[g].revokedAt # NoTime

\* this step is a call of validateFeatureAccess
ValidateCalled == last'.op = "validateFeatureAccess" /\ last'.seq # last.seq

\* C23: validateFeatureAccess(tenant, featureKey) is granted exactly when a
\* record exists for the tenant, its expiry is unset or has not passed, it is
\* not revoked and featureKey is in its feature set; a denial carries one of
\* four distinct reasons, and the reason names a case that applies; the call
\* leaves every record as it was.
C23_ValidateFeatureAccess ==
    [][ValidateCalled
        => LET g == last'.guildId
               k == last'.featureKey
               r == last'.result
               exists == g \in DOMAIN licenses
           IN  /\ r.valid <=> /\ exists
                              /\ ~Expired(g)
                              /\ ~Revoked(g)
                              /\ k \in licenses[g].features
               /\ r.valid => r.reason = ""
               /\ ~r.valid => r.reason \in {NoLicenseReason, ExpiredReason,
                                            RevokedReason, NotIncludedReason}
               /\ r.reason = NoLicenseReason <=> ~exists
               /\ r.reason = ExpiredReason => Expired(g)
               /\ r.reason = RevokedReason => Revoked(g)
               /\ r.reason = NotIncludedReason
                  => exists /\ k \notin licenses[g].features
               /\ licenses' = licenses]_vars

\* access was denied for a revoked record whose expiry has not passed and
\* whose feature set holds the key
C23_Witness ==
    /\ last.op = "validateFeatureAccess"
    /\ ~last.result.valid
    /\ last.result.reason = RevokedReason
    /\ ~Expired(last.guildId)
    /\ licenses[last.guildId].expiresAt = now
    /\ last.featureKey \in licenses[last.guildId].features

\* this step is a call of revokeLicense
RevokeCalled == last'.op = "revokeLicense" /\ last'.seq # last.seq

\* revokeLicense(g) returns false and changes nothing without a record, and
\* otherwise sets revokedAt on the record and leaves its other fields alone
RevokeMarks ==
    RevokeCalled
        => LET g == last'.guildId IN
           /\ last'.result <=> g \in DOMAIN licenses
           /\ ~last'.result => licenses' = licenses
           /\ last'.result
              => /\ DOMAIN licenses' = DOMAIN licenses
                 /\ licenses'[g].revokedAt # NoTime
                 /\ [licenses'[g] EXCEPT !.revokedAt = NoTime]
                        = [licenses[g] EXCEPT !.revokedAt = NoTime]
                 /\ \A o \in DOMAIN licenses \ {g} : licenses'[o] = licenses[o]

\* a revoked record stays revoked, or is deleted, until registerLicense
\* stores a new record for the tenant
RevokedUntilRecorded ==
    \A g \in Guilds :
        Revoked(g)
            => \/ g \in DOMAIN licenses' /\ licenses'[g].revokedAt # NoTime
               \/ g \notin DOMAIN licenses'
               \/ /\ RegisterLicenseCalled
                  /\ last'.result
                  /\ last'.license.guildId = g

\* validateFeatureAccess is denied for every key while the record is revoked
RevokedDeniesAccess ==
    (ValidateCalled /\ Revoked(last'.guildId)) => ~last'.result.valid

\* C24 as stated: revokeLicense returns false and changes nothing without a
\* record and otherwise marks the record revoked; while the record is
\* revoked, validateFeatureAccess is denied for every key and enableFeature
\* of every premium capability of the tenant fails, until a new valid
\* record is stored.
C24_RevokeDeniesPremium ==
    [][/\ RevokeMarks
       /\ RevokedUntilRecorded
       /\ RevokedDeniesAccess
       /\ (EnableCalled /\ Revoked(last'.guildId)
             /\ FeatureConfig[last'.featureKey].isPremium)
          => ~last'.result]_vars

\* C24 amended: as stated, except that enableFeature fails for every premium
\* capability of the tenant that is not already enabled; a premium
\* capability enabled before the revocation stays enabled, and enableFeature
\* on it still returns true without consulting the record.
C24_RevokeDeniesPremiumNotYetEnabled ==
    [][/\ RevokeMarks
       /\ RevokedUntilRecorded
       /\ RevokedDeniesAccess
       /\ (EnableCalled /\ Revoked(last'.guildId)
             /\ FeatureConfig[last'.featureKey].isPremium)
          => /\ instances' = instances
             /\ ~last'.hookCalled
             /\ last'.result
                <=> IsEnabled(last'.guildId, last'.featureKey)]_vars

\* enableFeature of a premium capability with a record that is not enabled
\* has just failed under a revoked entitlement whose expiry has not passed
C24_Witness ==
    /\ last.op = "enableFeature"
    /\ FeatureConfig[last.featureKey].isPremium
    /\ ~last.result
    /\ NotYetEnabled(last.guildId, last.featureKey)
    /\ Revoked(last.guildId)
    /\ ~Expired(last.guildId)

\* the checks of executeCommand that come before the premium check pass
ReachesPremiumCheck(i) ==
    LET h == Get(i.commandName) IN
    /\ h # NoHandler
    /\ enabled[h]
    /\ IsOnCooldown(i.commandName, i.user, now) = 0
    /\ CheckPermissions(i, Metadata[h])

\* C25: a premium-only command invoked in a tenant whose entitlement record
\* is revoked or expired does not run its handler, and fails with the
\* entitlement error when the checks before the premium check pass, as it
\* does in a tenant with no record.
C25_InvalidEntitlementBlocksPremium ==
    [][(/\ ExecCalled
        /\ Get(last'.inv.commandName) # NoHandler
        /\ Metadata[Get(last'.inv.commandName)].premiumOnly
        /\ Revoked(last'.inv.guild) \/ Expired(last'.inv.guild))
        => /\ ~last'.ran
           /\ ReachesPremiumCheck(last'.inv) => last'.error = PremiumMessage]_vars

\* the record of (g, k) is enabled after the step
IsEnabledAfter(g, k) ==
    /\ g \in DOMAIN instances'
    /\ k \in DOMAIN instances'[g]
    /\ instances'[g][k].enabled

\* a runtime record of (g, k) exists
HasRecord(g, k) == g \in DOMAIN instances /\ k \in DOMAIN instances[g]

\* without a record of the tenant a premium-only command does not run and
\* fails with the entitlement error once the earlier checks pass; another
\* command never fails with it and runs once its checks and arguments pass
DispatchWithoutRecord ==
    (/\ ExecCalled
     /\ last'.inv.guild \notin DOMAIN licenses
     /\ Get(last'.inv.commandName) # NoHandler)
        => LET i == last'.inv
               md == Metadata[Get(i.commandName)]
           IN  /\ md.premiumOnly
                  => /\ ~last'.ran
                     /\ ReachesPremiumCheck(i) => last'.error = PremiumMessage
               /\ ~md.premiumOnly
                  => /\ last'.error # PremiumMessage
                     /\ (ReachesPremiumCheck(i)
                          /\ ParseArguments(i.options, md.arguments).ok)
                        => last'.ran

\* C26 as stated: while a tenant has no entitlement record, enableFeature
\* of every non-premium capability with a runtime record succeeds,
\* enableFeature of every premium capability fails, non-premium commands
\* dispatch normally and premium-only commands fail with the entitlement
\* error.
C26_NoRecordDeniesPremiumOnly ==
    [][/\ (/\ EnableCalled
           /\ last'.guildId \notin DOMAIN licenses
           /\ HasRecord(last'.guildId, last'.featureKey))
          => IF FeatureConfig[last'.featureKey].isPremium
             THEN ~last'.result
             ELSE last'.result /\ IsEnabledAfter(last'.guildId, last'.featureKey)
       /\ DispatchWithoutRecord]_vars

\* C26 amended: while a tenant has no entitlement record, enableFeature of a
\* non-premium capability with a runtime record succeeds exactly when the
\* capability is already enabled or its enable hook completes, enableFeature
\* of a premium capability that is not already enabled fails without
\* invoking the hook (on one already enabled it is the no-op success);
\* dispatch is as stated.
C26_NoRecordDeniesPremiumNotYetEnabled ==
    [][/\ (/\ EnableCalled
           /\ last'.guildId \notin DOMAIN licenses
           /\ HasRecord(last'.guildId, last'.featureKey))
          => LET g == last'.guildId
                 k == last'.featureKey
             IN  IF FeatureConfig[k].isPremium
                 THEN /\ last'.result <=> IsEnabled(g, k)
                      /\ ~last'.hookCalled
                      /\ instances' = instances
                 ELSE /\ last'.result
                         <=> IsEnabled(g, k) \/ last'.hook = "ok"
                      /\ last'.result <=> IsEnabledAfter(g, k)
       /\ DispatchWithoutRecord]_vars

\* a free capability has just been enabled, its hook invoked, in a tenant
\* with no entitlement record
C26_Witness ==
    /\ last.op = "enableFeature"
    /\ ~FeatureConfig[last.featureKey].isPremium
    /\ last.result /\ last.hookCalled
    /\ last.guildId \notin DOMAIN licenses
    /\ IsEnabled(last.guildId, last.featureKey)

Parsed == last.op = "parseArguments"
MissingMessage == "Required argument is missing"

\* the argument of definition d has a value in the invocation
Supplied(d) == d.name \in DOMAIN last.options
\* definition j cannot be accepted: it is required and has no value, or its
\* value has another type or is refused by validateArgumentType
Refused(j) ==
    LET d == last.argDefs[j] IN
    IF ~Supplied(d) THEN d.required
    ELSE \/ last.options[d.name].type # d.type
         \/ ValidateArgumentType(last.options[d.name], d) # "ok"

\* an empty invocation parsed against definitions none of which is required
\* gives an empty result, and a successful parse has a key exactly for the
\* defined arguments that were supplied
ParseKeys ==
    Parsed
        => /\ (last.options = EmptyMap
               /\ \A j \in 1..Len(last.argDefs) : ~last.argDefs[j].required)
              => last.result.ok /\ last.result.args = EmptyMap
           /\ last.result.ok
              => DOMAIN last.result.args
                    = {last.argDefs[j].name : j \in
                          {q \in 1..Len(last.argDefs) : Supplied(last.argDefs[q])}}

\* C27 as stated: parseArguments fails with the missing-required-argument
\* error if and only if some required argument has no value in the
\* invocation; an empty invocation with no required arguments parses to an
\* empty result; a successful parse has a key exactly for each supplied
\* argument.
C27_MissingRequiredIff ==
    /\ Parsed
       => ((~last.result.ok /\ last.result.error = MissingMessage)
           <=> \E j \in 1..Len(last.argDefs) :
                   last.argDefs[j].required /\ ~Supplied(last.argDefs[j]))
    /\ ParseKeys

\* C27 amended: parseArguments fails whenever some required argument has no
\* value, and its error is the missing-required-argument error if and only
\* if the first definition, in definition order, that cannot be accepted is
\* a required argument with no value; the rest is as stated.
C27_MissingRequiredFirst ==
    /\ Parsed
       => /\ (\E j \in 1..Len(last.argDefs) :
                  last.argDefs[j].required /\ ~Supplied(last.argDefs[j]))
             => ~last.result.ok
          /\ (~last.result.ok /\ last.result.error = MissingMessage)
             <=> \E j \in 1..Len(last.argDefs) :
                     /\ last.argDefs[j].required
                     /\ ~Supplied(last.argDefs[j])
                     /\ \A q \in 1..(j - 1) : ~Refused(q)
    /\ ParseKeys

\* the optional first argument was supplied and accepted, the required
\* second one has no value, and the parse failed with the missing error
C27_Witness ==
    /\ Parsed
    /\ Len(last.argDefs) = 2
    /\ ~last.argDefs[1].required /\ Supplied(last.argDefs[1])
    /\ last.argDefs[2].required /\ ~Supplied(last.argDefs[2])
    /\ ~last.result.ok
    /\ last.result.error = MissingMessage

\* the value is outside a bound that definition d declares
OutOfBounds(value, d) ==
    \/ /\ d.type = "string"
       /\ \/ d.minLength # NoBound /\ Len(value.v) < d.minLength
          \/ d.maxLength # NoBound /\ Len(value.v) > d.maxLength
    \/ /\ d.type \in {"integer", "number"}
       /\ \/ d.minValue # NoBound /\ value.v < d.minValue
          \/ d.maxValue # NoBound /\ value.v > d.maxValue
    \/ /\ Len(d.choices) > 0
       /\ \A j \in 1..Len(d.choices) : d.choices[j].value # value.v

\* the definitions whose argument was supplied with an option of their type
Typed ==
    {j \in 1..Len(last.argDefs) :
        /\ Supplied(last.argDefs[j])
        /\ last.options[last.argDefs[j].name].type = last.argDefs[j].type}

\* C28: parseArguments enforces every declared bound, 0 included: a parse
\* in which a supplied value is shorter than minLength, longer than
\* maxLength, below minValue, above maxValue or not among the declared
\* choices fails; a successful parse returns every supplied value unchanged,
\* and a parse whose supplied values are all within their bounds and whose
\* required arguments all have a value succeeds.
C28_BoundsEnforced ==
    Parsed
        => /\ \A j \in Typed :
                 OutOfBounds(last.options[last.argDefs[j].name], last.argDefs[j])
                    => ~last.result.ok
           /\ last.result.ok
              => \A j \in Typed :
                     last.result.args[last.argDefs[j].name]
                        = last.options[last.argDefs[j].name].v
           /\ (\A j \in 1..Len(last.argDefs) :
                  LET d == last.argDefs[j] IN
                  IF Supplied(d)
                  THEN j \in Typed /\ ~OutOfBounds(last.options[d.name], d)
                  ELSE ~d.required)
              => last.result.ok

ParserSuggested == last.op = "parser.handleAutocomplete"
ExecutorSuggested == last.op = "executor.handleAutocomplete"

\* the candidate list of the call: what the caller-supplied source returned,
\* or the static choices of the focused argument
CandidatesOf ==
    IF last.inv.source.mode = "custom" THEN last.inv.source.options
    ELSE IF last.inv.source.mode = "static"
    THEN IF ParserSuggested THEN last.inv.source.options ELSE QueryChoices
    ELSE <<>>

\* text holds part as a substring when letter case is ignored
ContainsIgnoringCase(text, part) ==
    \E k \in 0..(Len(text) - Len(part)) :
        \A m \in 1..Len(part) : Lower(text[k + m]) = Lower(part[m])

\* the positions of the candidates that hold the partial input
MatchingPositions ==
    {j \in 1..Len(CandidatesOf) :
        \/ ContainsIgnoringCase(CandidatesOf[j].name, last.inv.focused.value)
        \/ ContainsIgnoringCase(CandidatesOf[j].value, last.inv.focused.value)}

\* the q-th matching position, in candidate order
Position(q) ==
    CHOOSE j \in MatchingPositions :
        Cardinality({m \in MatchingPositions : m < j}) = q - 1

\* C29: handleAutocomplete never passes more than 25 suggestions to the
\* transport: for every candidate list, from the caller-supplied source or
\* from the static choices, and every partial input, the list passed holds
\* the candidates that contain the partial input as a case-insensitive
\* substring, in candidate order, cut after the 25th; a call that passes no
\* list sends nothing.
C29_AtMostTwentyFive ==
    (ParserSuggested \/ ExecutorSuggested)
        => LET sent == last.out.sent IN
           /\ Len(sent) <= 25
           /\ \A q \in 1..Len(sent) :
                 /\ q <= Cardinality(MatchingPositions)
                 /\ sent[q] = CandidatesOf[Position(q)]
           /\ last.out.passed
              => \/ Len(sent) = Cardinality(MatchingPositions)
                 \/ Len(sent) = 25
           /\ ~last.out.passed => sent = <<>> /\ ~last.out.responded

\* more than 25 candidates of the source hold the partial input aB, written
\* in another case, and 25 of them were passed on
C29_Witness ==
    /\ ParserSuggested
    /\ last.inv.source.mode = "custom"
    /\ last.inv.focused.value = <<"a", "B">>
    /\ Cardinality(MatchingPositions) > 25
    /\ last.out.passed
    /\ Len(last.out.sent) = 25

\* this step is a call of the parser's or the executor's handleAutocomplete
AutocompleteCalled ==
    /\ last'.op \in {"parser.handleAutocomplete", "executor.handleAutocomplete"}
    /\ last'.seq # last.seq

\* C30: suggestion failures are swallowed: a call of handleAutocomplete, of
\* the parser or of the executor, raises nothing to its caller, also when
\* the caller-supplied source rejects or throws and when sending the
\* suggestions fails (the error is taken by the catch and nothing more is
\* sent), and it changes no command, cooldown, entitlement or runtime state.
C30_SuggestionFailuresSwallowed ==
    [][AutocompleteCalled
        => /\ ~last'.out.raised
           /\ last'.inv.source.mode \in {"reject", "throw"}
              => ~last'.out.passed /\ ~last'.out.responded
           /\ (last'.out.passed /\ last'.inv.respondFails)
              => last'.out.caught /\ ~last'.out.responded
           /\ UNCHANGED <<commands, aliases, cooldowns, enabled, licenses,
                          instances, botPermissions, fanoutVars>>]_vars

\* the executor called the source of the search command, the source
\* rejected, and the call returned to its caller
C30_Witness ==
    /\ ExecutorSuggested
    /\ last.inv.source.mode = "reject"
    /\ last.out.sourceCalled
    /\ last.out.caught
    /\ ~last.out.raised

\* this step is a call of clearCooldown / clearAllCooldowns
ClearCooldownCalled == last'.op = "clearCooldown" /\ last'.seq # last.seq
ClearAllCalled == last'.op = "clearAllCooldowns" /\ last'.seq # last.seq

\* the table holds a record of (name, user) whose expiry is not after t
ExpiredRecord(table, name, user, t) ==
    /\ name \in DOMAIN table
    /\ user \in DOMAIN table[name]
    /\ table[name][user] <= t

\* C32: an invocation that reaches the cooldown check with a record of
\* (command, invoker) whose expiry has passed does not leave that record in
\* the table; clearCooldown(command, invoker) removes the record of that
\* pair and no other, clearAllCooldowns removes every record, and the
\* invoker is not on cooldown afterwards.
C32_ExpiredRecordsRemoved ==
    [][/\ (/\ ExecCalled
           /\ Get(last'.inv.commandName) # NoHandler
           /\ enabled[Get(last'.inv.commandName)]
           /\ ExpiredRecord(cooldowns, last'.inv.commandName, last'.inv.user, now))
          => ~ExpiredRecord(cooldowns', last'.inv.commandName, last'.inv.user, now)
       /\ ClearCooldownCalled
          => LET n == last'.commandName
                 u == last'.userId
             IN  /\ ~(n \in DOMAIN cooldowns' /\ u \in DOMAIN cooldowns'[n])
                 /\ \A m \in DOMAIN cooldowns :
                        /\ m \in DOMAIN cooldowns'
                        /\ \A v \in DOMAIN cooldowns[m] :
                               (m # n \/ v # u)
                                  => /\ v \in DOMAIN cooldowns'[m]
                                     /\ cooldowns'[m][v] = cooldowns[m][v]
       /\ ClearAllCalled => cooldowns' = EmptyMap]_vars

\* C33: the cooldown of a command applies to (command, invoker) whatever
\* name is used: when the previous call was a successful invocation of a
\* command with cooldown > 0, an invocation of the same command by the same
\* invoker that starts inside the cooldown window, through the canonical
\* name or any alias, fails with the cooldown error and runs no handler.
C33_CooldownPerCommand ==
    [][(/\ Exec /\ last.success
        /\ Metadata[last.handler].cooldown > 0
        /\ ExecCalled
        /\ last'.inv.user = last.inv.user
        /\ Get(last'.inv.commandName) = last.handler
        /\ enabled[last.handler]
        /\ now < last.at + Metadata[last.handler].cooldown * MsPerSecond)
        => /\ last'.error = CooldownMessage
           /\ ~last'.ran]_vars

\* C38: deregister(name) removes only the aliases that resolve to name:
\* every alias indexed for another registered command still resolves to
\* that command afterwards, also when the definition of name declared the
\* same alias; and after every step each alias of the index maps to a
\* registered command.
C38_DeregisterKeepsOtherAliases ==
    [][/\ DeregisterCalled
          => \A a \in DOMAIN aliases :
                (/\ aliases[a] # last'.name
                 /\ aliases[a] \in DOMAIN commands
                 /\ a \notin DOMAIN commands)
                    => GetAfter(a) = commands[aliases[a]]
       /\ \A a \in DOMAIN aliases' : aliases'[a] \in DOMAIN commands']_vars


\* ----------------------------------------------------------------- C40
\* C40: in initializeGuildFeatures(T) a failure stays with its capability.  A
\* capability whose register hook fails, or whose permissions the bot lacks,
\* has no record for T afterwards; every other capability has a record that is
\* registered and not enabled; and the call ends normally, with T's map of
\* records in place.
C40_InitializationFailuresIsolated ==
    [][InitializeCalled
        => LET g == last'.guildId
               failed(k) == \/ ~ValidateFeaturePermissions(g, k)
                            \/ last'.hooks[k] = "throw"
           IN  /\ Has(instances', g)
               /\ \A k \in FeatureKeys :
                     IF failed(k) THEN ~Has(instances'[g], k)
                     ELSE /\ Has(instances'[g], k)
                          /\ ~instances'[g][k].enabled]_vars

\* the register hook of welcome, the first capability, has failed and xp, a
\* later one, is registered
C40_Witness ==
    /\ last.op = "initializeGuildFeatures"
    /\ last.hooks["welcome"] = "throw"
    /\ "welcome" \in last.registered
    /\ Has(instances, last.guildId)
    /\ ~Has(instances[last.guildId], "welcome")
    /\ Has(instances[last.guildId], "xp")

\* ----------------------------------------------------------------- C39
UpdateConfigCalled == last'.op = "updateConfig" /\ last'.seq # last.seq

\* C39: live configuration is isolated per (tenant, capability).  Every
\* record that initializeGuildFeatures creates holds a configuration equal to
\* its capability's default; updateConfig through the context of one record
\* writes the given keys into that record's configuration and leaves every
\* other record as it was; and no step changes a default configuration.
C39_ConfigIsolated ==
    [][/\ defaultConfig' = defaultConfig
       /\ InitializeCalled
            => \A k \in DOMAIN instances'[last'.guildId] :
                  instances'[last'.guildId][k].config = defaultConfig[k]
       /\ UpdateConfigCalled
            => LET g == last'.guildId
                   k == last'.featureKey
               IN  /\ DOMAIN instances' = DOMAIN instances
                   /\ \A g2 \in DOMAIN instances :
                         /\ DOMAIN instances'[g2] = DOMAIN instances[g2]
                         /\ \A k2 \in DOMAIN instances[g2] :
                               IF g2 = g /\ k2 = k
                               THEN instances'[g2][k2] =
                                      [instances[g2][k2] EXCEPT !.config =
                                          ObjectAssign(@, last'.newConfig)]
                               ELSE instances'[g2][k2] = instances[g2][k2]]_vars

\* welcome's configuration in g1 was updated and differs from the default,
\* while g2 holds a record of welcome and g1 a record of moderation
C39_Witness ==
    /\ last.op = "updateConfig"
    /\ last.guildId = "g1" /\ last.featureKey = "welcome"
    /\ instances["g1"]["welcome"].config # defaultConfig["welcome"]
    /\ Has(instances, "g2") /\ Has(instances["g2"], "welcome")
    /\ Has(instances["g1"], "moderation")

\* ----------------------------------------------------------------- C35
\* this step invokes the enable hook of (g, k): a call of enableFeature has
\* reached its await
EnableHookInvoked(g, k) ==
    \E t \in Callers :
        /\ ~Has(pending, t)
        /\ Has(pending', t)
        /\ pending'[t] = Awaiting("enableFeature", g, k, pending'[t].hook)

\* a call of enableFeature awaits the enable hook of the record of (g, k)
EnableInProgress(g, k) ==
    \E t \in DOMAIN pending :
        /\ pending[t].op = "enableFeature"
        /\ pending[t].guildId = g /\ pending[t].featureKey = k
        /\ pending[t].attached

\* C35: the enable hook is invoked at most once per transition into Enabled:
\* it is never invoked for a record whose enable hook is already awaited by
\* another call of enableFeature, nor for a record that is enabled.
C35_EnableHookOncePerTransition ==
    [][\A g \in Guilds, k \in FeatureKeys :
          EnableHookInvoked(g, k)
            => ~EnableInProgress(g, k) /\ ~IsEnabled(g, k)]_vars

\* ----------------------------------------------------------------- C36
\* a call of disableFeature has invoked the disable hook of the record of
\* (g, k) and the hook has not settled
DisableInProgress(g, k) ==
    \E t \in DOMAIN pending :
        /\ pending[t].op = "disableFeature"
        /\ pending[t].guildId = g /\ pending[t].featureKey = k
        /\ pending[t].attached

\* C36: once the disable hook of a capability was invoked for a tenant, no
\* event handler of that capability is invoked for that tenant before the
\* capability is enabled again; in particular handleEvent invokes no handler
\* of a record whose disable hook is still awaited.
C36_NoHandlerAfterDisableHook ==
    [][HandleEventCalled
        => \A c \in inflight'.invoked :
              ~DisableInProgress(inflight'.guildId, c.feature)]_vars

\* ----------------------------------------------------------------- C37
\* C37: enable and disable hooks are paired.  initializeGuildFeatures run for
\* a known tenant discards no enabled record; cleanupGuild discards an
\* enabled record only after invoking its disable hook; and no call of
\* enableFeature ends by enabling an instance that is no longer a record of
\* the map.
C37_HooksPaired ==
    [][/\ InitializeCalled /\ Has(instances, last'.guildId)
            => \A k \in DOMAIN instances[last'.guildId] :
                  ~instances[last'.guildId][k].enabled
       /\ (/\ last'.op = "cleanupGuild" /\ last'.seq # last.seq
           /\ Has(instances, last'.guildId)
           /\ ~Has(instances', last'.guildId))
            => \A k \in DOMAIN instances[last'.guildId] :
                  instances[last'.guildId][k].enabled
                    => k \in last'.disabled
       /\ (/\ last'.op = "enableFeature" /\ last'.seq # last.seq
           /\ last'.hookCalled /\ last'.result)
            => IsEnabledAfter(last'.guildId, last'.featureKey)]_vars

\* ----------------------------------------------------------------- C34
\* this step calls the handler for the invocation i: a call of
\* executeCommand has reached its await
HandlerCalled(i) ==
    \E t \in Callers :
        /\ ~Has(pending, t)
        /\ Has(pending', t)
        /\ pending'[t].op = "executeCommand"
        /\ pending'[t].inv = i

\* an earlier invocation of the same command by the same invoker is running
\* its handler, which will complete
HandlerRunning(i) ==
    \E t \in DOMAIN pending :
        /\ pending[t].op = "executeCommand"
        /\ pending[t].inv.commandName = i.commandName
        /\ pending[t].inv.user = i.user
        /\ pending[t].inv.handler.outcome = "ok"

\* C34: with overlapping invocations, at most one invocation of a command
\* with a cooldown by one invoker runs the handler successfully within one
\* cooldown window, so the handler is not called for an invoker whose earlier
\* invocation of the command is still running it; and an invocation is
\* refused for its cooldown only when the table holds an unexpired record of
\* the same command name and the same invoker.
C34_OneRunPerWindow ==
    [][/\ \A i \in InvokeInteractions :
            (/\ HandlerCalled(i)
             /\ i.handler.outcome = "ok"
             /\ Metadata[Get(i.commandName)].cooldown > 0)
                => ~HandlerRunning(i)
       /\ (ExecCalled /\ last'.error = CooldownMessage)
            => /\ Has(cooldowns, last'.inv.commandName)
               /\ Has(cooldowns[last'.inv.commandName], last'.inv.user)
               /\ cooldowns[last'.inv.commandName][last'.inv.user] > now]_vars

\* ----------------------------------------------------------------- C31
\* the signal handler has ended in the given way
ShutdownEnded(phase) ==
    Has(pending, Signal) /\ pending[Signal].phase = phase

\* C31: on SIGINT / SIGTERM the disable hook of every enabled capability of
\* every known tenant is invoked and has settled before client.destroy(), and
\* the runtime holds no tenant records at client.destroy(): the signal
\* handler ends with client.destroy(), no disable hook is awaited then, and
\* no tenant has records then.
C31_DrainedBeforeRelease ==
    /\ ~ShutdownEnded("aborted")
    /\ ShutdownEnded("destroyed")
            => /\ instances = EmptyMap
               /\ inflight = NoCall
====
